---- MODULE Spec2Model ----
(***************************************************************************)
(* Model of the summary tool of build-ai-context: the exclusion matcher,   *)
(* the structure walk and its serializer, the copy engine and the merge    *)
(* engine, and the summarize commands that drive them.                     *)
(*                                                                         *)
(* A string is a sequence of one-character strings: "a/b" is              *)
(* <<"a", "/", "b">>.  A file-system path below the workspace root is a    *)
(* sequence of names, each name a string.                                  *)
(***************************************************************************)
EXTENDS Integers, Sequences, FiniteSets, TLC

VARIABLES
  mpc,        \* matcher run: "new" | "built" | "threw" | "tested"
  mPatterns,  \* ExclusionMatcher.originalPatterns
  mRegs,      \* ExclusionMatcher.patterns (the compiled RegExp objects)
  mPath,      \* argument of the last shouldExclude call
  mResult,    \* shouldExclude(...).shouldExclude of the last call
  caller,     \* who made the last shouldExclude call, on which item, under which root
  fs,         \* the workspace on disk: directories, files, faults, readdir order
  ignorePatterns, \* config.ignoreStructure
  wpc,        \* structure run: "off" | "idle" | "failed" | "built" | "serialized"
  structure,  \* rootNode.children of the FolderNode that generateStructure returns
  dirsRead,   \* directories that fs.promises.readdir was called on by the walk
  doc,        \* the object that generateStructureText serializes
  track,      \* config.track, each entry resolved to a path below the root
  untrackPatterns, \* config.untrack
  target,     \* the entries of the target directory: name -> file or directory
  kpc,        \* copy run: "off" | "ready" | "loop" | "returned"; "expanded" after a bare expansion
  allFiles,   \* the flat list of trackAndCopyFiles
  ki,         \* the loop index i of trackAndCopyFiles, counted from 1
  copiedFiles,   \* FileTracker.copiedFiles
  skippedFiles,  \* FileTracker.skippedFiles
  trackedFiles,  \* trackedFiles of the run
  run,        \* number of calls of trackAndCopyFiles so far
  targetAtStart, \* the target directory when the current run began
  ioFaults,   \* number of copies or reads that failed with an I/O error so far
  gpc,        \* merge run: "off" | "ready" | "loop" | "streaming" | "piped" | "rejected" | "failed" | "returned"
  output,     \* the text of the combined output file
  outputExists, \* the combined output file exists
  pending,    \* text written to the write stream and not yet in the file
  blockStart, \* size of the output file when the write stream was created
  caught,     \* the error that rejected appendFileToOutput: "none" | "read" | "write"
  streams,    \* the read and the write stream of the current file, each
              \* "none" | "open" | "closing" (destroyed, descriptor not closed yet) | "closed"
  cmd,        \* the command that runs: "none" | "summarize" | "oneFile"
  cpc,        \* the command: "off" | "running" | "done" | "error"
  structureFile, \* the structure file in the target folder
  menu,       \* the last context-menu command: its name, its item, how it ended
  progress    \* the progress sink: whether one is set, and the reports it got

mvars == <<mpc, mPatterns, mRegs, mPath, mResult, caller>>

wvars == <<fs, ignorePatterns, wpc, structure, dirsRead, doc>>

kvars == <<track, untrackPatterns, target, kpc, allFiles, ki, copiedFiles,
           skippedFiles, trackedFiles, run, targetAtStart, ioFaults>>

gvars == <<gpc, output, outputExists, pending, blockStart, caught, streams>>

cvars == <<cmd, cpc, structureFile, menu>>

vars == <<mpc, mPatterns, mRegs, mPath, mResult, caller,
          fs, ignorePatterns, wpc, structure, dirsRead, doc,
          track, untrackPatterns, target, kpc, allFiles, ki, copiedFiles,
          skippedFiles, trackedFiles, run, targetAtStart, ioFaults,
          gpc, output, outputExists, pending, blockStart, caught, streams,
          cmd, cpc, structureFile, menu, progress>>

----------------------------------------------------------------------------
(* Bounds *)

MaxPatLen == 3      \* longest generated pattern string
MaxSegs == 2        \* most segments of a generated candidate path
MaxDepth == 3       \* deepest entry of a generated workspace tree
MaxEntries == 3     \* most entries of a generated workspace tree
MaxFaults == 1      \* most entries of a tree that fail to stat or to list
MaxSources == 2     \* most files of a workspace given to the copy engine
MaxTrack == 2       \* longest track list
MaxRuns == 2        \* most calls of trackAndCopyFiles in one behaviour
MaxIoFaults == 1    \* most copies that fail with an I/O error in one behaviour

----------------------------------------------------------------------------
(* The progress sink *)

\* a report with a message only
Message(text) == [message |-> text, name |-> <<>>, increment |-> <<>>]

\* a report with a message and an increment, the increment a fraction
MessageIncrement(text, num, den) == [message |-> text, name |-> <<>>, increment |-> <<num, den>>]

\* the report after the i-th of n files (i counted from 1): progressPercent
\* is ((i - 1 + 1) / n) * 100 and the increment is progressPercent / n
FileReport(text, name, i, n) ==
  [message |-> text, name |-> name, increment |-> <<100 * i, n * n>>]

\* this.progress?.report(r)
Report(p, r) == IF p.set THEN [p EXCEPT !.reports = Append(@, r)] ELSE p

NoSink == [set |-> FALSE, reports |-> <<>>]

NewSink == [set |-> TRUE, reports |-> <<>>]

----------------------------------------------------------------------------
(* Strings *)

\* String.prototype.startsWith / endsWith
StartsWith(s, pre) ==
  /\ Len(s) >= Len(pre)
  /\ SubSeq(s, 1, Len(pre)) = pre

EndsWith(s, suf) ==
  /\ Len(s) >= Len(suf)
  /\ SubSeq(s, Len(s) - Len(suf) + 1, Len(s)) = suf

\* String.prototype.includes for a single character
Includes(s, c) == \E i \in 1..Len(s) : s[i] = c

\* str.replace(/\\/g, "/")
NormalizeSeparators(s) == [i \in 1..Len(s) |-> IF s[i] = "\\" THEN "/" ELSE s[i]]

\* the case folding of the RegExp "i" flag, on the letters of the model
Lower(c) ==
  CASE c = "A" -> "a"
    [] c = "B" -> "b"
    [] c = "T" -> "t"
    [] OTHER -> c

LowerStr(s) == [i \in 1..Len(s) |-> Lower(s[i])]

\* normalizedPath.split("/").pop() || ""
LastSlash(s) ==
  IF \E i \in 1..Len(s) : s[i] = "/"
  THEN CHOOSE i \in 1..Len(s) : s[i] = "/" /\ \A j \in (i+1)..Len(s) : s[j] # "/"
  ELSE 0

ItemName(s) == SubSeq(s, LastSlash(s) + 1, Len(s))

----------------------------------------------------------------------------
(* JavaScript RegExp, for the sources the matcher can produce.  A compiled *)
(* regular expression is a sequence of nodes.                              *)

SEG == "([^/]*)"
GLOBSTAR == "((?:[^/]*(?:\\/|$))*)"

Invalid == [ok |-> FALSE, nodes |-> <<>>]

\* new RegExp(src, "i"): src is the sequence of pieces of the source text.
\* A "(" opens a group that no piece of the model's alphabet closes, and a
\* "*" needs an atom that is not yet quantified in front of it.
RECURSIVE ParseRegExp(_, _, _)
ParseRegExp(src, i, acc) ==
  IF i > Len(src) THEN [ok |-> TRUE, nodes |-> acc]
  ELSE LET c == src[i] IN
    CASE c = "^" -> ParseRegExp(src, i + 1, Append(acc, [t |-> "bol", c |-> "", star |-> FALSE]))
      [] c = "$" -> ParseRegExp(src, i + 1, Append(acc, [t |-> "eol", c |-> "", star |-> FALSE]))
      [] c = "." -> ParseRegExp(src, i + 1, Append(acc, [t |-> "any", c |-> "", star |-> FALSE]))
      [] c = SEG -> ParseRegExp(src, i + 1, Append(acc, [t |-> "seg", c |-> "", star |-> FALSE]))
      [] c = GLOBSTAR -> ParseRegExp(src, i + 1, Append(acc, [t |-> "globstar", c |-> "", star |-> FALSE]))
      [] c = "\\" ->
           IF i = Len(src) THEN Invalid
           ELSE ParseRegExp(src, i + 2, Append(acc, [t |-> "chr", c |-> src[i + 1], star |-> FALSE]))
      [] c = "*" ->
           IF acc = <<>> THEN Invalid
           ELSE LET last == acc[Len(acc)] IN
                IF last.t \in {"chr", "any"} /\ ~last.star
                THEN ParseRegExp(src, i + 1,
                       [acc EXCEPT ![Len(acc)] = [last EXCEPT !.star = TRUE]])
                ELSE Invalid
      [] c = "(" -> Invalid
      [] OTHER -> ParseRegExp(src, i + 1, Append(acc, [t |-> "chr", c |-> c, star |-> FALSE]))

RegExpI(src) == ParseRegExp(src, 1, <<>>)

\* one character against one atom, under the "i" flag
AtomMatches(node, ch) ==
  CASE node.t = "chr" -> Lower(ch) = Lower(node.c)
    [] node.t = "any" -> TRUE
    [] OTHER -> FALSE

\* does a match of nodes[i..] start at position p of s
RECURSIVE MatchAt(_, _, _, _)
MatchAt(nodes, i, s, p) ==
  IF i > Len(nodes) THEN TRUE
  ELSE LET n == nodes[i] IN
    CASE n.t = "bol" -> p = 1 /\ MatchAt(nodes, i + 1, s, p)
      [] n.t = "eol" -> p = Len(s) + 1 /\ MatchAt(nodes, i + 1, s, p)
      [] n.t = "seg" ->
           \/ MatchAt(nodes, i + 1, s, p)
           \/ p <= Len(s) /\ s[p] # "/" /\ MatchAt(nodes, i, s, p + 1)
      [] n.t = "globstar" ->
           \/ MatchAt(nodes, i + 1, s, p)
           \/ \E q \in p..(Len(s) + 1) :
                /\ \A k \in p..(q - 1) : s[k] # "/"
                /\ IF q <= Len(s)
                   THEN s[q] = "/" /\ MatchAt(nodes, i, s, q + 1)
                   ELSE q > p /\ MatchAt(nodes, i + 1, s, q)
      [] OTHER ->
           IF n.star
           THEN \/ MatchAt(nodes, i + 1, s, p)
                \/ p <= Len(s) /\ AtomMatches(n, s[p]) /\ MatchAt(nodes, i, s, p + 1)
           ELSE p <= Len(s) /\ AtomMatches(n, s[p]) /\ MatchAt(nodes, i + 1, s, p + 1)

\* RegExp.prototype.test: a search, the regular expression has no "g" flag
RegExpTest(re, s) == \E p \in 1..(Len(s) + 1) : MatchAt(re.nodes, 1, s, p)

----------------------------------------------------------------------------
(* glob-to-regexp with { globstar: true, extended: true, flags: "i" }      *)

GlobEscaped == {"/", "$", "^", "+", ".", "(", ")", "=", "!", "|"}

\* number of consecutive "*" starting at position i
RECURSIVE StarRun(_, _)
StarRun(str, i) ==
  IF i <= Len(str) /\ str[i] = "*" THEN 1 + StarRun(str, i + 1) ELSE 0

RECURSIVE GlobLoop(_, _, _)
GlobLoop(str, i, inGroup) ==
  IF i > Len(str) THEN <<>>
  ELSE LET c == str[i] IN
    CASE c \in GlobEscaped -> <<"\\", c>> \o GlobLoop(str, i + 1, inGroup)
      [] c = "?" -> <<".">> \o GlobLoop(str, i + 1, inGroup)
      [] c \in {"[", "]"} -> <<c>> \o GlobLoop(str, i + 1, inGroup)
      [] c = "{" -> <<"(">> \o GlobLoop(str, i + 1, TRUE)
      [] c = "}" -> <<")">> \o GlobLoop(str, i + 1, FALSE)
      [] c = "," ->
           IF inGroup THEN <<"|">> \o GlobLoop(str, i + 1, inGroup)
           ELSE <<"\\", c>> \o GlobLoop(str, i + 1, inGroup)
      [] c = "*" ->
           LET starCount == StarRun(str, i)
               last == i + starCount - 1
               prevIsEdge == i = 1 \/ str[i - 1] = "/"
               nextIsEdge == last = Len(str) \/ str[last + 1] = "/"
               isGlobstar == starCount > 1 /\ prevIsEdge /\ nextIsEdge
           IN IF isGlobstar
              THEN <<GLOBSTAR>> \o GlobLoop(str, last + 2, inGroup)
              ELSE <<SEG>> \o GlobLoop(str, last + 1, inGroup)
      [] OTHER -> <<c>> \o GlobLoop(str, i + 1, inGroup)

\* the flags have no "g", so the source is anchored at both ends
globToRegExp(glob) == RegExpI(<<"^">> \o GlobLoop(glob, 1, FALSE) \o <<"$">>)

----------------------------------------------------------------------------
(* ExclusionMatcher *)

EscapedByEscapeRegex ==
  {".", "*", "+", "?", "^", "$", "{", "}", "(", ")", "|", "[", "]", "\\"}

RECURSIVE escapeRegex(_)
escapeRegex(str) ==
  IF str = <<>> THEN <<>>
  ELSE (IF Head(str) \in EscapedByEscapeRegex THEN <<"\\", Head(str)>> ELSE <<Head(str)>>)
       \o escapeRegex(Tail(str))

IsRegexPattern(pattern) == StartsWith(pattern, <<"/">>) /\ EndsWith(pattern, <<"/">>)

\* pattern.slice(1, -1)
Slice1(pattern) == SubSeq(pattern, 2, Len(pattern) - 1)

\* createRegexFromPattern with the glob left unanchored
createRegexFromPattern_Unanchored(pattern) ==
  IF IsRegexPattern(pattern)
  THEN LET direct == RegExpI(Slice1(pattern)) IN
       IF direct.ok THEN direct ELSE RegExpI(escapeRegex(pattern))
  ELSE RegExpI(GlobLoop(NormalizeSeparators(pattern), 1, FALSE))

\* ok = FALSE is the exception that new RegExp raises inside globToRegExp,
\* which createRegexFromPattern does not catch
createRegexFromPattern(pattern) ==
  IF IsRegexPattern(pattern)
  THEN LET direct == RegExpI(Slice1(pattern)) IN
       IF direct.ok THEN direct ELSE RegExpI(escapeRegex(pattern))
  ELSE globToRegExp(NormalizeSeparators(pattern))

\* the directory rule without the "/" after the pattern
PrefixRule_NoSeparator(normalizedPath, originalPattern) ==
  StartsWith(normalizedPath, NormalizeSeparators(originalPattern))

\* the directory rule of shouldExclude for pattern number i
PrefixRule(normalizedPath, originalPattern) ==
  LET normalizedPattern == NormalizeSeparators(originalPattern) IN
  \/ StartsWith(normalizedPath, normalizedPattern \o <<"/">>)
  \/ normalizedPath = normalizedPattern

\* the loop body without the test of the final segment
PatternExcludes_NoNameTest(re, originalPattern, normalizedPath) ==
  \/ RegExpTest(re, normalizedPath)
  \/ ~Includes(originalPattern, "*") /\ PrefixRule(normalizedPath, originalPattern)

\* the body of the loop of shouldExclude for one pattern
PatternExcludes(re, originalPattern, normalizedPath) ==
  \/ RegExpTest(re, normalizedPath)
  \/ RegExpTest(re, ItemName(normalizedPath))
  \/ ~Includes(originalPattern, "*") /\ PrefixRule(normalizedPath, originalPattern)

shouldExclude(regs, originalPatterns, itemPath) ==
  LET normalizedPath == NormalizeSeparators(itemPath) IN
  \E i \in 1..Len(regs) : PatternExcludes(regs[i], originalPatterns[i], normalizedPath)

\* the constructor: maps createRegexFromPattern over the list
CompileAll(patterns) == [i \in 1..Len(patterns) |-> createRegexFromPattern(patterns[i])]

ConstructorThrows(patterns) == \E i \in 1..Len(patterns) : ~CompileAll(patterns)[i].ok

----------------------------------------------------------------------------
(* The matcher run: a pattern list from the configuration is compiled by   *)
(* the constructor and shouldExclude is called on candidate paths.         *)

PatChars == {"a", "B", "/", "*", "{"}

RECURSIVE StringsOver(_, _)
StringsOver(chars, n) ==
  IF n = 0 THEN {<<>>}
  ELSE LET shorter == StringsOver(chars, n - 1) IN
       shorter \cup {Append(s, c) : s \in {t \in shorter : Len(t) = n - 1}, c \in chars}

ExRegex == <<"/", "^", "t", "e", "s", "t", ".", "*", "\\", ".", "j", "s", "$", "/">>
ExGlob == <<"*", ".", "l", "o", "g">>
ExLiteral == <<"b", "u", "i", "l", "d">>

GenPatterns == StringsOver(PatChars, MaxPatLen)

\* patterns whose compilation fails
BadPatterns == {<<"/", "*", "/">>, <<"/", "*", "a", "/">>, <<"{">>}

CompanionPatterns == {<<"a">>, <<"*", "B">>, <<"/", "^", "a", "/">>}

PatternLists ==
  {<<p>> : p \in GenPatterns \cup {ExRegex, ExGlob, ExLiteral}}
    \cup {<<p, q>> : p \in BadPatterns, q \in CompanionPatterns}
    \cup {<<q, p>> : p \in BadPatterns, q \in CompanionPatterns}

SegNames == {<<"a">>, <<"A">>, <<"b">>, <<"a", "b">>, <<"a", "*">>}

\* path.join of n names
RECURSIVE JoinedPaths(_)
JoinedPaths(n) ==
  IF n = 1 THEN SegNames
  ELSE LET shorter == JoinedPaths(n - 1) IN
       shorter \cup {s \o <<"/">> \o name : s \in shorter, name \in SegNames}

ExPaths ==
  { <<"t", "e", "s", "t", "_", "f", "o", "o", ".", "j", "s">>,
    <<"t", "e", "s", "t", "i", "n", "g", ".", "j", "s">>,
    <<"f", "o", "o", "_", "t", "e", "s", "t", ".", "j", "s">>,
    <<"s", "r", "c", "/", "T", "e", "s", "t", ".", "j", "s">>,
    <<"a", "p", "p", ".", "l", "o", "g">>,
    <<"l", "o", "g", "s", "/", "a", "p", "p", ".", "l", "o", "g">>,
    <<"b", "u", "i", "l", "d">>,
    <<"B", "u", "i", "l", "d">>,
    <<"b", "u", "i", "l", "d", "/", "o", "u", "t", "p", "u", "t", ".", "b", "i", "n">>,
    <<"r", "e", "b", "u", "i", "l", "d", "/", "x">>,
    <<"s", "r", "c", "/", "b", "u", "i", "l", "d">>,
    <<"a", "\\", "b">>,
    <<"b", "/", "*", "/", "b">>,
    <<"b", "/", "*", "A", "/", "b">> }

CandidatePaths == JoinedPaths(MaxSegs) \cup ExPaths

\* shouldExclude was not called by the walk or by the expansion
NoCaller == [by |-> "none", workspacePath |-> <<>>, workspaceFolders |-> <<>>,
             item |-> <<>>]

MatchIdle ==
  /\ mpc = "off"
  /\ mPatterns = <<>>
  /\ mRegs = <<>>
  /\ mPath = <<>>
  /\ mResult = FALSE
  /\ caller = NoCaller

WalkIdle ==
  /\ fs = [dirs |-> {}, files |-> <<>>, statFail |-> {}, listFail |-> {},
           order |-> <<>>, rootExists |-> TRUE]
  /\ ignorePatterns = <<>>
  /\ wpc = "off"
  /\ structure = <<>>
  /\ dirsRead = {}
  /\ doc = <<>>

CopyIdle ==
  /\ track = <<>>
  /\ untrackPatterns = <<>>
  /\ target = <<>>
  /\ kpc = "off"
  /\ allFiles = <<>>
  /\ ki = 0
  /\ copiedFiles = 0
  /\ skippedFiles = 0
  /\ trackedFiles = <<>>
  /\ run = 0
  /\ targetAtStart = <<>>
  /\ ioFaults = 0

MergeIdle ==
  /\ gpc = "off"
  /\ output = <<>>
  /\ outputExists = FALSE
  /\ pending = <<>>
  /\ blockStart = 0
  /\ caught = "none"
  /\ streams = [read |-> "none", write |-> "none"]

\* no context-menu command has run
NoMenuCommand == [name |-> "none", item |-> <<>>, outcome |-> "none"]

CmdIdle ==
  /\ cmd = "none"
  /\ cpc = "off"
  /\ structureFile = [written |-> FALSE, text |-> <<>>]
  /\ menu = NoMenuCommand

MatchInit ==
  /\ WalkIdle
  /\ CopyIdle
  /\ MergeIdle
  /\ CmdIdle
  /\ mpc = "new"
  /\ mPatterns \in PatternLists
  /\ mRegs = <<>>
  /\ mPath = <<>>
  /\ mResult = FALSE
  /\ caller = NoCaller
  /\ progress = NoSink

\* new ExclusionMatcher(patterns)
NewMatcher ==
  /\ mpc = "new"
  /\ mRegs' = CompileAll(mPatterns)
  /\ mpc' = IF ConstructorThrows(mPatterns) THEN "threw" ELSE "built"
  /\ UNCHANGED <<mPatterns, mPath, mResult, caller>>
  /\ UNCHANGED <<wvars, kvars, gvars, cvars>>
  /\ UNCHANGED progress

\* matcher.shouldExclude(itemPath)
ShouldExcludeCall ==
  /\ mpc \in {"built", "tested"}
  /\ \E p \in CandidatePaths :
       /\ mPath' = p
       /\ mResult' = shouldExclude(mRegs, mPatterns, p)
  /\ mpc' = "tested"
  /\ UNCHANGED <<mPatterns, mRegs, caller>>
  /\ UNCHANGED <<wvars, kvars, gvars, cvars>>
  /\ UNCHANGED progress

MatchNext == NewMatcher \/ ShouldExcludeCall

SpecMatch == MatchInit /\ [][MatchNext]_vars

----------------------------------------------------------------------------
(* Claims about the matcher *)

TestedOne == mpc = "tested" /\ Len(mPatterns) = 1

IsValidRegexPattern(P) == IsRegexPattern(P) /\ RegExpI(Slice1(P)).ok

GlobMetaChars == {"*", "?", "[", "]", "{", "}"}

IsLiteralPattern(P) == ~IsRegexPattern(P) /\ \A i \in 1..Len(P) : P[i] \notin GlobMetaChars

IsGlobPattern(P) == ~IsRegexPattern(P) /\ Includes(P, "*")

TestFooJs == <<"t", "e", "s", "t", "_", "f", "o", "o", ".", "j", "s">>
TestingJs == <<"t", "e", "s", "t", "i", "n", "g", ".", "j", "s">>
FooTestJs == <<"f", "o", "o", "_", "t", "e", "s", "t", ".", "j", "s">>
SrcTestJs == <<"s", "r", "c", "/", "T", "e", "s", "t", ".", "j", "s">>

\* C5: for a pattern /R/ with R a valid regular expression, shouldExclude(p)
\* is true exactly when R, searched ignoring case, matches the normalized
\* path p or the final segment of p; /^test.*\.js$/ excludes test_foo.js and
\* testing.js and does not exclude foo_test.js.
C5_RegexMatchesPathOrName ==
  (TestedOne /\ IsValidRegexPattern(mPatterns[1])) =>
    LET R == RegExpI(Slice1(mPatterns[1]))
        np == NormalizeSeparators(mPath)
    IN /\ mResult = (RegExpTest(R, np) \/ RegExpTest(R, ItemName(np)))
       /\ (mPatterns[1] = ExRegex /\ mPath \in {TestFooJs, TestingJs}) => mResult
       /\ (mPatterns[1] = ExRegex /\ mPath = FooTestJs) => ~mResult

\* the regular expression of the example matched the final segment only
C5_Witness ==
  /\ TestedOne
  /\ mPatterns[1] = ExRegex
  /\ mPath = SrcTestJs
  /\ mResult

LiteralRule(L, np) == np = L \/ StartsWith(np, L \o <<"/">>)

\* C6 as stated: for a literal pattern L, shouldExclude(p) is true exactly
\* when the normalized path p equals L or begins with L followed by "/",
\* compared case-sensitively.
C6_LiteralCaseSensitiveOnly ==
  (TestedOne /\ IsLiteralPattern(mPatterns[1])) =>
    mResult = LiteralRule(NormalizeSeparators(mPatterns[1]), NormalizeSeparators(mPath))

\* C6 amended: for a literal pattern L, shouldExclude(p) is true exactly when
\* the normalized path p equals L or begins with L followed by "/", compared
\* case-sensitively, or when p or the final segment of p equals L ignoring
\* case; so build excludes build, build/output.bin, Build and src/build, and
\* does not exclude rebuild/x.
C6_LiteralOrNameIgnoringCase ==
  (TestedOne /\ IsLiteralPattern(mPatterns[1])) =>
    LET L == NormalizeSeparators(mPatterns[1])
        np == NormalizeSeparators(mPath)
    IN /\ mResult = \/ LiteralRule(L, np)
                    \/ LowerStr(np) = LowerStr(L)
                    \/ LowerStr(ItemName(np)) = LowerStr(L)
       /\ mPatterns[1] = ExLiteral =>
            mResult = (mPath \in { <<"b", "u", "i", "l", "d">>,
                                   <<"B", "u", "i", "l", "d">>,
                                   <<"s", "r", "c", "/", "b", "u", "i", "l", "d">>,
                                   <<"b", "u", "i", "l", "d", "/", "o", "u", "t", "p", "u", "t", ".", "b", "i", "n">> })

\* a literal pattern excluded a path by its final segment
C6_Witness ==
  /\ TestedOne
  /\ mPatterns[1] = ExLiteral
  /\ mPath = <<"s", "r", "c", "/", "b", "u", "i", "l", "d">>
  /\ mResult

\* the glob of C7 as stated: one "*" is a run without "/", two or more are
\* any run
RECURSIVE NaiveGlob(_, _, _, _)
NaiveGlob(g, i, s, p) ==
  IF i > Len(g) THEN p = Len(s) + 1
  ELSE IF g[i] = "*"
       THEN LET stars == StarRun(g, i) IN
            \E q \in p..(Len(s) + 1) :
              /\ stars = 1 => \A k \in p..(q - 1) : s[k] # "/"
              /\ NaiveGlob(g, i + stars, s, q)
       ELSE p <= Len(s) /\ Lower(s[p]) = Lower(g[i]) /\ NaiveGlob(g, i + 1, s, p + 1)

\* the glob of C7 as amended: a run of two or more "*" that stands between
\* "/" or the ends of the pattern matches zero or more whole segments, each
\* with the "/" after it, and takes the "/" that follows it in the pattern;
\* every other run of "*" is a run without "/"
RECURSIVE SegmentGlob(_, _, _, _)
SegmentGlob(g, i, s, p) ==
  IF i > Len(g) THEN p = Len(s) + 1
  ELSE IF g[i] = "*"
       THEN LET stars == StarRun(g, i)
                next == i + stars
                whole == /\ stars >= 2
                         /\ (i = 1 \/ g[i - 1] = "/")
                         /\ (next > Len(g) \/ g[next] = "/")
            IN IF whole
               THEN \E q \in p..(Len(s) + 1) :
                      /\ q = p \/ q = Len(s) + 1 \/ s[q - 1] = "/"
                      /\ SegmentGlob(g, next + 1, s, q)
               ELSE \E q \in p..(Len(s) + 1) :
                      /\ \A k \in p..(q - 1) : s[k] # "/"
                      /\ SegmentGlob(g, next, s, q)
       ELSE p <= Len(s) /\ Lower(s[p]) = Lower(g[i]) /\ SegmentGlob(g, i + 1, s, p + 1)

\* C7 as stated: for a glob pattern, shouldExclude(p) is true exactly when
\* the glob matches the whole normalized path or its final segment, where
\* one "*" matches a run without "/" and "**" matches across "/".
C7_GlobStarStarAlwaysCrosses ==
  (TestedOne /\ IsGlobPattern(mPatterns[1])) =>
    LET g == NormalizeSeparators(mPatterns[1])
        np == NormalizeSeparators(mPath)
    IN mResult = (NaiveGlob(g, 1, np, 1) \/ NaiveGlob(g, 1, ItemName(np), 1))

\* C7 amended: for a glob pattern, shouldExclude(p) is true exactly when the
\* glob matches, ignoring case and anchored at both ends, the whole
\* normalized path or its final segment, where "**" matches across "/" only
\* as a whole segment of the pattern and any other run of "*" matches a run
\* without "/"; no directory-prefix rule applies to a glob pattern.
C7_GlobSegmentAware ==
  (TestedOne /\ IsGlobPattern(mPatterns[1])) =>
    LET g == NormalizeSeparators(mPatterns[1])
        np == NormalizeSeparators(mPath)
    IN /\ mResult = (SegmentGlob(g, 1, np, 1) \/ SegmentGlob(g, 1, ItemName(np), 1))
       /\ (mPatterns[1] = ExGlob /\ mPath = <<"l", "o", "g", "s", "/", "a", "p", "p", ".", "l", "o", "g">>)
            => mResult

\* "**" after a name did not cross the "/"
C7_Witness ==
  /\ TestedOne
  /\ mPatterns[1] = <<"a", "*", "*">>
  /\ mPath = <<"a", "/", "b">>
  /\ ~mResult

\* C10: building a matcher set from any list of pattern strings never raises
\* an error to the caller.
C10_ConstructorNeverThrows == mpc # "threw"

----------------------------------------------------------------------------
(* The workspace on disk *)

FsNames == {<<"a">>, <<"b">>}

Parent(p) == SubSeq(p, 1, Len(p) - 1)

BaseName(p) == p[Len(p)]

Entries(f) == f.dirs \cup DOMAIN f.files

ChildrenOf(f, dir) == {e \in Entries(f) : Len(e) = Len(dir) + 1 /\ Parent(e) = dir}

IsProperPrefix(d, p) == Len(d) < Len(p) /\ SubSeq(p, 1, Len(d)) = d

\* path.relative(workspaceRoot, itemPath) for an entry below the root
RECURSIVE RelativePath(_)
RelativePath(p) ==
  IF Len(p) = 0 THEN <<>>
  ELSE IF Len(p) = 1 THEN p[1]
  ELSE RelativePath(Parent(p)) \o <<"/">> \o BaseName(p)

\* PathUtils.getRelativePathFromWorkspace, the workspace folder being the root
getRelativePathFromWorkspace(itemPath) == RelativePath(itemPath)

\* trees of at most n entries: shapes only, every file empty
Shape(dirs, files) == [dirs |-> dirs, files |-> files]

Addable(t, names) ==
  {q \in {Append(d, n) : d \in t.dirs \cup {<<>>}, n \in names} :
     Len(q) <= MaxDepth /\ q \notin t.dirs \cup t.files}

RECURSIVE ShapesUpTo(_, _)
ShapesUpTo(n, names) ==
  IF n = 0 THEN {Shape({}, {})}
  ELSE LET prev == ShapesUpTo(n - 1, names) IN
       prev \cup UNION {
         {Shape(t.dirs \cup {q}, t.files) : q \in Addable(t, names)}
           \cup {Shape(t.dirs, t.files \cup {q}) : q \in Addable(t, names)}
         : t \in prev}

\* the faults of one tree: entries whose stat fails, directories (the root
\* included) whose listing fails
FaultChoices(t) ==
  {c \in [stat : SUBSET (t.dirs \cup t.files), list : SUBSET (t.dirs \cup {<<>>})] :
     Cardinality(c.stat) + Cardinality(c.list) <= MaxFaults}

\* the orders in which readdir can return the names
NameOrders(names) ==
  {o \in [1..Cardinality(names) -> names] : \A i, j \in DOMAIN o : i # j => o[i] # o[j]}

----------------------------------------------------------------------------
(* StructureSummarizer *)

FileMarker == [kind |-> "file"]

NoChildren == <<>>

\* the walk with excluded files left out of the tree
RECURSIVE buildStructureRecursive_SkipsExcludedFiles(_, _, _, _)
buildStructureRecursive_SkipsExcludedFiles(f, regs, patterns, currentPath) ==
  IF currentPath \in f.listFail THEN NoChildren
  ELSE LET items == {BaseName(e) : e \in ChildrenOf(f, currentPath)}
           kept == {item \in items :
                      /\ Append(currentPath, item) \notin f.statFail
                      /\ Append(currentPath, item) \in f.dirs
                           \/ ~shouldExclude(regs, patterns,
                                 getRelativePathFromWorkspace(Append(currentPath, item)))}
       IN [item \in kept |->
            LET itemPath == Append(currentPath, item)
                excluded == shouldExclude(regs, patterns, getRelativePathFromWorkspace(itemPath))
            IN IF itemPath \in f.dirs
               THEN [kind |-> "dir", name |-> item, path |-> itemPath,
                     isIgnored |-> excluded,
                     children |-> IF excluded THEN NoChildren
                                  ELSE buildStructureRecursive_SkipsExcludedFiles(
                                         f, regs, patterns, itemPath)]
               ELSE FileMarker]

\* the walk descending into ignored directories as well
RECURSIVE buildStructureRecursive_AlwaysDescends(_, _, _, _)
buildStructureRecursive_AlwaysDescends(f, regs, patterns, currentPath) ==
  IF currentPath \in f.listFail THEN NoChildren
  ELSE LET items == {BaseName(e) : e \in ChildrenOf(f, currentPath)}
           kept == {item \in items : Append(currentPath, item) \notin f.statFail}
       IN [item \in kept |->
            LET itemPath == Append(currentPath, item)
                excluded == shouldExclude(regs, patterns, getRelativePathFromWorkspace(itemPath))
            IN IF itemPath \in f.dirs
               THEN [kind |-> "dir", name |-> item, path |-> itemPath,
                     isIgnored |-> excluded,
                     children |-> buildStructureRecursive_AlwaysDescends(
                                    f, regs, patterns, itemPath)]
               ELSE FileMarker]

\* the walk taking an entry whose stats cannot be read for a file
RECURSIVE buildStructureRecursive_KeepsUnreadable(_, _, _, _)
buildStructureRecursive_KeepsUnreadable(f, regs, patterns, currentPath) ==
  IF currentPath \in f.listFail THEN NoChildren
  ELSE LET items == {BaseName(e) : e \in ChildrenOf(f, currentPath)}
       IN [item \in items |->
            LET itemPath == Append(currentPath, item)
                relativePath == getRelativePathFromWorkspace(itemPath)
                excluded == shouldExclude(regs, patterns, relativePath)
            IN IF itemPath \in f.dirs /\ itemPath \notin f.statFail
               THEN [kind |-> "dir", name |-> item, path |-> itemPath,
                     isIgnored |-> excluded,
                     children |-> IF excluded THEN NoChildren
                                  ELSE buildStructureRecursive_KeepsUnreadable(
                                         f, regs, patterns, itemPath)]
               ELSE FileMarker]

\* the children mapping that the walk leaves in parentNode.children
RECURSIVE buildStructureRecursive(_, _, _, _)
buildStructureRecursive(f, regs, patterns, currentPath) ==
  IF currentPath \in f.listFail THEN NoChildren
  ELSE LET items == {BaseName(e) : e \in ChildrenOf(f, currentPath)}
           kept == {item \in items : Append(currentPath, item) \notin f.statFail}
       IN [item \in kept |->
            LET itemPath == Append(currentPath, item)
                relativePath == getRelativePathFromWorkspace(itemPath)
                excluded == shouldExclude(regs, patterns, relativePath)
            IN IF itemPath \in f.dirs
               THEN [kind |-> "dir", name |-> item, path |-> itemPath,
                     isIgnored |-> excluded,
                     children |-> IF excluded THEN NoChildren
                                  ELSE buildStructureRecursive(f, regs, patterns, itemPath)]
               ELSE FileMarker]

\* the directories the walk lists: the root and every directory it descends into
RECURSIVE DirsListed(_, _)
DirsListed(children, currentPath) ==
  {currentPath} \cup UNION {
    IF children[item].kind = "dir" /\ ~children[item].isIgnored
    THEN DirsListed(children[item].children, Append(currentPath, item))
    ELSE {}
    : item \in DOMAIN children}

\* a precomposed letter and the combining mark of its decomposed spelling
EAcute == "e-acute"

CombiningAcute == "combining-acute"

\* canonical decomposition (NFD) of a name
RECURSIVE Decompose(_)
Decompose(s) ==
  IF s = <<>> THEN <<>>
  ELSE (IF Head(s) = EAcute THEN <<"e", CombiningAcute>> ELSE <<Head(s)>>)
         \o Decompose(Tail(s))

\* the base letter that a character sorts with, lower case
BaseLetter(c) == IF c = EAcute THEN "e" ELSE Lower(c)

\* String.prototype.localeCompare, primary level: punctuation, then digits,
\* then letters in alphabetical order whatever their case or accent
LetterRank(c) ==
  CASE c = CombiningAcute -> 0
    [] c = "_" -> 1
    [] c = "." -> 2
    [] c = "0" -> 4
    [] c = "1" -> 5
    [] c = "2" -> 6
    [] BaseLetter(c) = "a" -> 11
    [] BaseLetter(c) = "b" -> 12
    [] BaseLetter(c) = "e" -> 15
    [] BaseLetter(c) = "f" -> 16
    [] BaseLetter(c) = "t" -> 30
    [] OTHER -> 40

\* the primary keys of a name: the combining mark has none
RECURSIVE PrimaryKeys(_)
PrimaryKeys(s) ==
  IF s = <<>> THEN <<>>
  ELSE (IF LetterRank(Head(s)) = 0 THEN <<>> ELSE <<LetterRank(Head(s))>>)
         \o PrimaryKeys(Tail(s))

RECURSIVE SeqLess(_, _)
SeqLess(x, y) ==
  IF x = <<>> THEN y # <<>>
  ELSE IF y = <<>> THEN FALSE
  ELSE IF Head(x) # Head(y) THEN Head(x) < Head(y)
  ELSE SeqLess(Tail(x), Tail(y))

\* the lower levels of the comparison: an unaccented letter before the
\* accented one, a lower-case letter before the upper-case one
LowerLevelRank(c) ==
  CASE c = CombiningAcute -> 2
    [] Lower(c) = c -> 0
    [] OTHER -> 1

RECURSIVE LowerLevelKeys(_)
LowerLevelKeys(s) ==
  IF s = <<>> THEN <<>> ELSE <<LowerLevelRank(Head(s))>> \o LowerLevelKeys(Tail(s))

\* x.localeCompare(y) < 0; canonically equivalent names compare as equal
LocaleLess(x, y) ==
  LET dx == Decompose(x)
      dy == Decompose(y)
  IN IF PrimaryKeys(dx) # PrimaryKeys(dy) THEN SeqLess(PrimaryKeys(dx), PrimaryKeys(dy))
     ELSE SeqLess(LowerLevelKeys(dx), LowerLevelKeys(dy))

\* the names of S in the order in which readdir returns them
RECURSIVE InOrder(_, _)
InOrder(order, S) ==
  IF order = <<>> THEN <<>>
  ELSE (IF Head(order) \in S THEN <<Head(order)>> ELSE <<>>) \o InOrder(Tail(order), S)

\* a property key that is an array index: a canonical decimal numeral
IsArrayIndex(name) ==
  /\ name # <<>>
  /\ \A i \in DOMAIN name : name[i] \in {"0", "1", "2"}
  /\ Len(name) > 1 => name[1] # "0"

RECURSIVE NumericValue(_)
NumericValue(name) ==
  IF name = <<>> THEN 0
  ELSE 10 * NumericValue(SubSeq(name, 1, Len(name) - 1))
         + (CASE name[Len(name)] = "1" -> 1 [] name[Len(name)] = "2" -> 2 [] OTHER -> 0)

RECURSIVE AscendingIndices(_)
AscendingIndices(S) ==
  IF S = {} THEN <<>>
  ELSE LET m == CHOOSE x \in S : \A y \in S : NumericValue(x) <= NumericValue(y)
       IN <<m>> \o AscendingIndices(S \ {m})

RECURSIVE SelectSeq2(_, _)
SelectSeq2(keys, wantIndex) ==
  IF keys = <<>> THEN <<>>
  ELSE (IF IsArrayIndex(Head(keys)) = wantIndex THEN <<Head(keys)>> ELSE <<>>)
         \o SelectSeq2(Tail(keys), wantIndex)

\* the order in which an object enumerates its own keys (Object.entries,
\* JSON.stringify): array indices in ascending numeric order, then the other
\* keys in the order in which they were assigned
OwnPropertyKeys(assigned) ==
  AscendingIndices({assigned[i] : i \in {j \in DOMAIN assigned : IsArrayIndex(assigned[j])}})
    \o SelectSeq2(assigned, FALSE)

\* the comparator of the sort: negative when a goes first
EntryLess(children, a, b) ==
  IF children[a].kind = "dir" /\ children[b].kind = "file" THEN TRUE
  ELSE IF children[a].kind = "file" /\ children[b].kind = "dir" THEN FALSE
  ELSE LocaleLess(a, b)

RemoveAt(s, i) == SubSeq(s, 1, i - 1) \o SubSeq(s, i + 1, Len(s))

\* Array.prototype.sort is stable: of the entries that none goes before, the
\* earliest comes first
RECURSIVE StableSort(_, _)
StableSort(children, keys) ==
  IF keys = <<>> THEN <<>>
  ELSE LET i == CHOOSE k \in DOMAIN keys :
                  /\ \A j \in DOMAIN keys : ~EntryLess(children, keys[j], keys[k])
                  /\ \A j \in 1..(k - 1) : EntryLess(children, keys[k], keys[j])
       IN <<keys[i]>> \o StableSort(children, RemoveAt(keys, i))

\* Object.entries(node.children), the children having been assigned in the
\* order of readdir
ObjectEntries(f, children) == OwnPropertyKeys(InOrder(f.order, DOMAIN children))

\* Object.entries(node.children).sort(...): directories first, then by name
sortedChildren(f, children) == StableSort(children, ObjectEntries(f, children))

Num(n) == [t |-> "num", n |-> n, members |-> <<>>]

Obj(members) == [t |-> "obj", n |-> 0, members |-> members]

\* PathUtils.countDirectItems(dirPath): the number of immediate children
countDirectItems(f, dirPath) == Cardinality(ChildrenOf(f, dirPath))

\* the members of result in the order in which JSON.stringify writes them
RECURSIVE generateCompactJson(_, _)
generateCompactJson(f, children) ==
  LET keys == OwnPropertyKeys(sortedChildren(f, children)) IN
  [i \in 1..Len(keys) |->
     LET child == children[keys[i]] IN
     [key |-> keys[i],
      val |-> IF child.kind = "file" THEN Num(0)
              ELSE IF child.isIgnored THEN Num(countDirectItems(f, child.path))
              ELSE Obj(generateCompactJson(f, child.children))]]

WalkTrees ==
  UNION {
    {[dirs |-> t.dirs, files |-> [q \in t.files |-> <<>>],
      statFail |-> c.stat, listFail |-> c.list, order |-> o, rootExists |-> TRUE] :
       c \in FaultChoices(t), o \in NameOrders(FsNames)}
    : t \in ShapesUpTo(MaxEntries, FsNames)}

\* names that are array indices, and two spellings of one accented name
SpecialNames == {<<"1">>, <<"2">>, <<EAcute>>, <<"e", CombiningAcute>>}

\* roots whose entries have such names, each a file or an empty directory
SpecialTrees ==
  UNION {
    {[dirs |-> {<<n>> : n \in {m \in present : kind[m] = "dir"}},
      files |-> [q \in {<<n>> : n \in {m \in present : kind[m] = "file"}} |-> <<>>],
      statFail |-> {}, listFail |-> {}, order |-> o, rootExists |-> TRUE] :
       kind \in [present -> {"dir", "file"}], o \in NameOrders(SpecialNames)}
    : present \in SUBSET SpecialNames}

MissingRoot ==
  [dirs |-> {}, files |-> <<>>, statFail |-> {}, listFail |-> {},
   order |-> <<>>, rootExists |-> FALSE]

IgnoreLists ==
  { <<>>,
    << <<"a">> >>,
    << <<"a", "/", "b">> >>,
    << <<"/", "^", "b", "/">> >>,
    << <<"*", "/", "*">>, <<"B">> >> }

WalkInit ==
  /\ MatchIdle
  /\ CopyIdle
  /\ MergeIdle
  /\ CmdIdle
  /\ fs \in WalkTrees \cup SpecialTrees \cup {MissingRoot}
  /\ ignorePatterns \in IgnoreLists
  /\ wpc = "idle"
  /\ structure = <<>>
  /\ dirsRead = {}
  /\ doc = <<>>
  /\ progress = NoSink

\* generateStructure without the PathUtils.exists test
GenerateStructure_NoExistsCheck ==
  /\ wpc = "idle"
  /\ LET children == buildStructureRecursive(fs, CompileAll(ignorePatterns),
                                             ignorePatterns, <<>>)
     IN /\ structure' = children
        /\ dirsRead' = DirsListed(children, <<>>)
        /\ wpc' = "built"
  /\ UNCHANGED <<fs, ignorePatterns, doc>>
  /\ UNCHANGED <<mvars, kvars, gvars, cvars>>
  /\ progress' = IF wpc' = "built"
                  THEN Report(Report(progress, Message("Analyzing project structure...")),
                              Message("Structure analysis complete!"))
                  ELSE progress

\* generateStructure with a matcher that also holds the untrack patterns
GenerateStructure_SharedPatterns ==
  /\ wpc = "idle"
  /\ IF ~fs.rootExists
     THEN /\ wpc' = "failed"
          /\ UNCHANGED <<structure, dirsRead>>
     ELSE LET shared == ignorePatterns \o untrackPatterns
              children == buildStructureRecursive(fs, CompileAll(shared), shared, <<>>)
          IN /\ structure' = children
             /\ dirsRead' = DirsListed(children, <<>>)
             /\ wpc' = "built"
  /\ UNCHANGED <<fs, ignorePatterns, doc>>
  /\ UNCHANGED <<mvars, kvars, gvars, cvars>>
  /\ progress' = IF wpc' = "built"
                  THEN Report(Report(progress, Message("Analyzing project structure...")),
                              Message("Structure analysis complete!"))
                  ELSE progress

\* StructureSummarizer.generateStructure
GenerateStructure ==
  /\ wpc = "idle"
  /\ IF ~fs.rootExists
     THEN /\ wpc' = "failed"
          /\ UNCHANGED <<structure, dirsRead>>
     ELSE LET children == buildStructureRecursive(fs, CompileAll(ignorePatterns),
                                                  ignorePatterns, <<>>)
          IN /\ structure' = children
             /\ dirsRead' = DirsListed(children, <<>>)
             /\ wpc' = "built"
  /\ UNCHANGED <<fs, ignorePatterns, doc>>
  /\ UNCHANGED <<mvars, kvars, gvars, cvars>>
  /\ progress' = IF wpc' = "built"
                  THEN Report(Report(progress, Message("Analyzing project structure...")),
                              Message("Structure analysis complete!"))
                  ELSE progress

\* StructureSummarizer.generateStructureText
GenerateStructureText ==
  /\ wpc = "built"
  /\ doc' = generateCompactJson(fs, structure)
  /\ wpc' = "serialized"
  /\ UNCHANGED <<fs, ignorePatterns, structure, dirsRead>>
  /\ UNCHANGED <<mvars, kvars, gvars, cvars>>
  /\ UNCHANGED progress

WalkNext == GenerateStructure \/ GenerateStructureText

SpecWalk == WalkInit /\ [][WalkNext]_vars

----------------------------------------------------------------------------
(* FileTracker: the flat file list *)

Item(p, isFile) == [path |-> p, relativePath |-> getRelativePathFromWorkspace(p), isFile |-> isFile]

\* getTrackedItems: entries that exist and can be stat'ed, in list order
RECURSIVE getTrackedItems(_, _)
getTrackedItems(f, trackPatterns) ==
  IF trackPatterns = <<>> THEN <<>>
  ELSE LET absolutePath == Head(trackPatterns)
           exists == absolutePath = <<>> \/ absolutePath \in Entries(f)
           rest == getTrackedItems(f, Tail(trackPatterns))
       IN IF exists /\ absolutePath \notin f.statFail
          THEN <<Item(absolutePath, absolutePath \in DOMAIN f.files)>> \o rest
          ELSE rest

RECURSIVE expandDirectory(_, _, _, _, _)

\* expandDirectory with the untrack test on files only: an excluded
\* subdirectory is descended into
expandDirectory_DescendsExcluded(f, regs, patterns, directoryPath, k) ==
  IF directoryPath \in f.listFail \/ k > Len(f.order) THEN <<>>
  ELSE LET itemPath == Append(directoryPath, f.order[k])
           rest == expandDirectory(f, regs, patterns, directoryPath, k + 1)
       IN IF itemPath \notin Entries(f) THEN rest
          ELSE IF itemPath \in f.statFail THEN rest
          ELSE IF itemPath \in DOMAIN f.files
          THEN IF shouldExclude(regs, patterns, getRelativePathFromWorkspace(itemPath))
               THEN rest
               ELSE <<Item(itemPath, TRUE)>> \o rest
          ELSE expandDirectory(f, regs, patterns, itemPath, 1) \o rest

\* expandDirectory, from the k-th name that readdir returns
expandDirectory(f, regs, patterns, directoryPath, k) ==
  IF directoryPath \in f.listFail \/ k > Len(f.order) THEN <<>>
  ELSE LET itemPath == Append(directoryPath, f.order[k])
           rest == expandDirectory(f, regs, patterns, directoryPath, k + 1)
       IN IF itemPath \notin Entries(f) THEN rest
          ELSE IF shouldExclude(regs, patterns, getRelativePathFromWorkspace(itemPath)) THEN rest
          ELSE IF itemPath \in f.statFail THEN rest
          ELSE IF itemPath \in DOMAIN f.files THEN <<Item(itemPath, TRUE)>> \o rest
          ELSE expandDirectory(f, regs, patterns, itemPath, 1) \o rest

RECURSIVE expandTrackedItems(_, _, _, _)
expandTrackedItems(f, regs, patterns, trackedItems) ==
  IF trackedItems = <<>> THEN <<>>
  ELSE LET item == Head(trackedItems)
           rest == expandTrackedItems(f, regs, patterns, Tail(trackedItems))
       IN IF item.isFile
          THEN IF shouldExclude(regs, patterns, item.relativePath) THEN rest
               ELSE <<item>> \o rest
          ELSE expandDirectory(f, regs, patterns, item.path, 1) \o rest

FlatList(f, trackPatterns, untrack) ==
  expandTrackedItems(f, CompileAll(untrack), untrack, getTrackedItems(f, trackPatterns))

----------------------------------------------------------------------------
(* FileTracker: copy mode *)

\* path.extname of a name
LastDot(name) ==
  IF \E i \in 1..Len(name) : name[i] = "."
  THEN CHOOSE i \in 1..Len(name) : name[i] = "." /\ \A j \in (i+1)..Len(name) : name[j] # "."
  ELSE 0

ExtName(name) ==
  LET startDot == LastDot(name) IN
  IF startDot = 0 \/ startDot = 1 THEN <<>>
  ELSE IF name[1] = "." /\ startDot = 2 /\ Len(name) = 2 THEN <<>>
  ELSE SubSeq(name, startDot, Len(name))

\* path.basename(fileName, ext)
NameWithoutExt(name) == SubSeq(name, 1, Len(name) - Len(ExtName(name)))

DigitChar(d) ==
  CASE d = 0 -> "0" [] d = 1 -> "1" [] d = 2 -> "2" [] d = 3 -> "3" [] d = 4 -> "4"
    [] d = 5 -> "5" [] d = 6 -> "6" [] d = 7 -> "7" [] d = 8 -> "8" [] OTHER -> "9"

\* the decimal text of a counter in a template string
RECURSIVE Decimal(_)
Decimal(n) == IF n < 10 THEN <<DigitChar(n)>> ELSE Decimal(n \div 10) \o <<DigitChar(n % 10)>>

RECURSIVE UniqueLoop(_, _, _, _, _)
UniqueLoop(tgt, baseName, ext, uniqueName, counter) ==
  IF uniqueName \in DOMAIN tgt
  THEN UniqueLoop(tgt, baseName, ext, baseName \o <<"_">> \o Decimal(counter) \o ext, counter + 1)
  ELSE uniqueName

\* getUniqueFileName trying the suffix _1 only
getUniqueFileName_SingleTry(tgt, fileName) ==
  IF fileName \in DOMAIN tgt
  THEN NameWithoutExt(fileName) \o <<"_", "1">> \o ExtName(fileName)
  ELSE fileName

\* PathUtils.getUniqueFileName(targetDir, fileName)
getUniqueFileName(tgt, fileName) ==
  UniqueLoop(tgt, NameWithoutExt(fileName), ExtName(fileName), fileName, 1)

\* SHA-256 of a content: no two contents of the model collide
Sha256(content) == [sha256 |-> content]

\* compareFileContents, both files readable
compareFileContents(content1, content2) ==
  IF Len(content1) # Len(content2) THEN FALSE
  ELSE IF Len(content1) = 0 THEN TRUE
  ELSE Sha256(content1) = Sha256(content2)

FileEntry(content) == [kind |-> "file", content |-> content]

DirEntry == [kind |-> "dir", content |-> <<>>]

WriteEntry(tgt, name, content) ==
  [n \in DOMAIN tgt \cup {name} |-> IF n = name THEN FileEntry(content) ELSE tgt[n]]

Flag(b) == IF b THEN 1 ELSE 0

\* copyFile writing to the source's own name whatever the target holds
copyFile_Overwrites(tgt, fileName, content, statFails, compareFails, copyFails) ==
  LET isFile == fileName \in DOMAIN tgt /\ ~statFails /\ tgt[fileName].kind = "file"
      isSameContent == /\ isFile
                       /\ ~compareFails
                       /\ compareFileContents(content, tgt[fileName].content)
      isDirectory == fileName \in DOMAIN tgt /\ tgt[fileName].kind = "dir"
      faults == Flag(fileName \in DOMAIN tgt /\ statFails) + Flag(isFile /\ compareFails)
                  + Flag(~isSameContent /\ copyFails)
  IN IF isSameContent
     THEN [target |-> tgt, copied |-> 0, skipped |-> 1, success |-> TRUE, faults |-> faults]
     ELSE IF copyFails \/ isDirectory
     THEN [target |-> tgt, copied |-> 0, skipped |-> 1, success |-> FALSE, faults |-> faults]
     ELSE [target |-> WriteEntry(tgt, fileName, content),
           copied |-> 1, skipped |-> 0, success |-> TRUE, faults |-> faults]

\* copyFile taking a fresh name whenever the name is taken by a file
copyFile_NeverCompares(tgt, fileName, content, statFails, compareFails, copyFails) ==
  LET isFile == fileName \in DOMAIN tgt /\ ~statFails /\ tgt[fileName].kind = "file"
      targetFileName == IF isFile THEN getUniqueFileName(tgt, fileName) ELSE fileName
      isDirectory == targetFileName \in DOMAIN tgt /\ tgt[targetFileName].kind = "dir"
      faults == Flag(fileName \in DOMAIN tgt /\ statFails) + Flag(isFile /\ compareFails)
                  + Flag(copyFails)
  IN IF copyFails \/ isDirectory
     THEN [target |-> tgt, copied |-> 0, skipped |-> 1, success |-> FALSE, faults |-> faults]
     ELSE [target |-> WriteEntry(tgt, targetFileName, content),
           copied |-> 1, skipped |-> 0, success |-> TRUE, faults |-> faults]

\* copyFile counting a failed copy as done
copyFile_FailureIsSuccess(tgt, fileName, content, statFails, compareFails, copyFails) ==
  LET isFile == fileName \in DOMAIN tgt /\ ~statFails /\ tgt[fileName].kind = "file"
      isSameContent == /\ isFile
                       /\ ~compareFails
                       /\ compareFileContents(content, tgt[fileName].content)
      targetFileName == IF isFile /\ ~isSameContent
                        THEN getUniqueFileName(tgt, fileName)
                        ELSE fileName
      isDirectory == targetFileName \in DOMAIN tgt /\ tgt[targetFileName].kind = "dir"
      faults == Flag(fileName \in DOMAIN tgt /\ statFails) + Flag(isFile /\ compareFails)
                  + Flag(~isSameContent /\ copyFails)
  IN IF isSameContent
     THEN [target |-> tgt, copied |-> 0, skipped |-> 1, success |-> TRUE, faults |-> faults]
     ELSE IF copyFails \/ isDirectory
     THEN [target |-> tgt, copied |-> 1, skipped |-> 0, success |-> TRUE, faults |-> faults]
     ELSE [target |-> WriteEntry(tgt, targetFileName, content),
           copied |-> 1, skipped |-> 0, success |-> TRUE, faults |-> faults]

\* copyFile with a catch block that leaves the counters alone
copyFile_FailureUncounted(tgt, fileName, content, statFails, compareFails, copyFails) ==
  LET isFile == fileName \in DOMAIN tgt /\ ~statFails /\ tgt[fileName].kind = "file"
      isSameContent == /\ isFile
                       /\ ~compareFails
                       /\ compareFileContents(content, tgt[fileName].content)
      targetFileName == IF isFile /\ ~isSameContent
                        THEN getUniqueFileName(tgt, fileName)
                        ELSE fileName
      isDirectory == targetFileName \in DOMAIN tgt /\ tgt[targetFileName].kind = "dir"
      faults == Flag(fileName \in DOMAIN tgt /\ statFails) + Flag(isFile /\ compareFails)
                  + Flag(~isSameContent /\ copyFails)
  IN IF isSameContent
     THEN [target |-> tgt, copied |-> 0, skipped |-> 1, success |-> TRUE, faults |-> faults]
     ELSE IF copyFails \/ isDirectory
     THEN [target |-> tgt, copied |-> 0, skipped |-> 0, success |-> FALSE, faults |-> faults]
     ELSE [target |-> WriteEntry(tgt, targetFileName, content),
           copied |-> 1, skipped |-> 0, success |-> TRUE, faults |-> faults]

\* copyFile: the target after the call, the two increments, the result and
\* the number of I/O errors met; statFails is an error of the stat of the
\* entry that exists under the name (getFileStats answers null and the file
\* is copied to that name), compareFails an error of the stat or the hashing
\* in compareFileContents (it answers false), copyFails an error of
\* fs.promises.copyFile
copyFile(tgt, fileName, content, statFails, compareFails, copyFails) ==
  LET isFile == fileName \in DOMAIN tgt /\ ~statFails /\ tgt[fileName].kind = "file"
      isSameContent == /\ isFile
                       /\ ~compareFails
                       /\ compareFileContents(content, tgt[fileName].content)
      targetFileName == IF isFile /\ ~isSameContent
                        THEN getUniqueFileName(tgt, fileName)
                        ELSE fileName
      isDirectory == targetFileName \in DOMAIN tgt /\ tgt[targetFileName].kind = "dir"
      faults == Flag(fileName \in DOMAIN tgt /\ statFails) + Flag(isFile /\ compareFails)
                  + Flag(~isSameContent /\ copyFails)
  IN IF isSameContent
     THEN [target |-> tgt, copied |-> 0, skipped |-> 1, success |-> TRUE, faults |-> faults]
     ELSE IF copyFails \/ isDirectory
     THEN [target |-> tgt, copied |-> 0, skipped |-> 1, success |-> FALSE, faults |-> faults]
     ELSE [target |-> WriteEntry(tgt, targetFileName, content),
           copied |-> 1, skipped |-> 0, success |-> TRUE, faults |-> faults]

\* the ".." that path.relative puts before an entry outside the workspace
Up == <<".", ".">>

NameA == <<"a">>
NameB == <<"b">>
NameFT == <<"f", ".", "t">>
NameF1T == <<"f", "_", "1", ".", "t">>
NameF2T == <<"f", "_", "2", ".", "t">>

Contents == {<<>>, <<"x">>}

CopyFilePaths == {<<NameA, NameFT>>, <<NameB, NameFT>>, <<NameFT>>, <<NameB, NameF1T>>}

CopyOrders == {<<NameA, NameB, NameFT, NameF1T>>, <<NameF1T, NameFT, NameB, NameA>>}

\* the readdir orders that tell two workspaces apart: one, unless two of the
\* files are in the same directory
OrdersOf(chosen) ==
  IF \E p, q \in chosen : p # q /\ Parent(p) = Parent(q)
  THEN CopyOrders
  ELSE {<<NameA, NameB, NameFT, NameF1T>>}

CopyTrees ==
  UNION {
    {[dirs |-> {Parent(q) : q \in {r \in chosen : Len(r) > 1}},
      files |-> c, statFail |-> {}, listFail |-> {}, order |-> o, rootExists |-> TRUE] :
       c \in [chosen -> Contents], o \in OrdersOf(chosen)}
    : chosen \in {S \in SUBSET CopyFilePaths : Cardinality(S) <= MaxSources}}

\* the track list holds absolute paths: entries below the workspace folder
TrackEntries == {<<NameA>>, <<NameB>>, <<NameFT>>, <<NameA, NameFT>>}

\* the track lists of at most n entries, no entry written twice
RECURSIVE TrackLists(_)
TrackLists(n) ==
  IF n = 0 THEN {<<>>}
  ELSE LET shorter == TrackLists(n - 1) IN
       shorter \cup UNION {{Append(l, e) : e \in {x \in TrackEntries :
                                                     \A i \in 1..(n - 1) : l[i] # x}} :
                            l \in {m \in shorter : Len(m) = n - 1}}

UntrackLists == {<<>>, << <<"b">> >>}

InitialTargets ==
  { <<>>,
    [n \in {NameFT} |-> FileEntry(<<"x">>)],
    [n \in {NameFT} |-> DirEntry] }

CopyInit ==
  /\ MatchIdle
  /\ MergeIdle
  /\ CmdIdle
  /\ fs \in CopyTrees
  /\ ignorePatterns = <<>>
  /\ wpc = "off"
  /\ structure = <<>>
  /\ dirsRead = {}
  /\ doc = <<>>
  /\ track \in TrackLists(MaxTrack)
  /\ untrackPatterns \in UntrackLists
  /\ target \in InitialTargets
  /\ kpc = "ready"
  /\ allFiles = <<>>
  /\ ki = 0
  /\ copiedFiles = 0
  /\ skippedFiles = 0
  /\ trackedFiles = <<>>
  /\ run = 0
  /\ targetAtStart = <<>>
  /\ ioFaults = 0
  /\ progress = NewSink

\* trackAndCopyFiles up to the loop: counters reset, tracked items expanded
CopyBegin ==
  /\ kpc = "ready"
  /\ copiedFiles' = 0
  /\ skippedFiles' = 0
  /\ allFiles' = FlatList(fs, track, untrackPatterns)
  /\ trackedFiles' = <<>>
  /\ ki' = 1
  /\ run' = run + 1
  /\ targetAtStart' = target
  /\ kpc' = "loop"
  /\ UNCHANGED <<track, untrackPatterns, target, ioFaults>>
  /\ UNCHANGED <<mvars, wvars, gvars, cvars>>
  /\ progress' = Report(Report(progress, Message("Analyzing tracked files...")),
                        Message("Found files to copy..."))

\* one iteration of the loop of trackAndCopyFiles
CopyStep ==
  /\ kpc = "loop"
  /\ ki <= Len(allFiles)
  /\ \E statFails, compareFails, copyFails \in BOOLEAN :
       LET file == allFiles[ki]
           r == copyFile(target, BaseName(file.path), fs.files[file.path],
                         statFails, compareFails, copyFails)
       IN /\ r.faults = Flag(statFails) + Flag(compareFails) + Flag(copyFails)
          /\ ioFaults + r.faults <= MaxIoFaults
          /\ target' = r.target
          /\ copiedFiles' = copiedFiles + r.copied
          /\ skippedFiles' = skippedFiles + r.skipped
          /\ trackedFiles' = IF r.success THEN Append(trackedFiles, file.relativePath)
                             ELSE trackedFiles
          /\ ioFaults' = ioFaults + r.faults
  /\ ki' = ki + 1
  /\ UNCHANGED <<track, untrackPatterns, kpc, allFiles, run, targetAtStart>>
  /\ UNCHANGED <<mvars, wvars, gvars, cvars>>
  /\ progress' = Report(progress, FileReport("Copied: ", BaseName(allFiles[ki].path),
                                              ki, Len(allFiles)))

\* the return of trackAndCopyFiles
CopyReturn ==
  /\ kpc = "loop"
  /\ ki > Len(allFiles)
  /\ kpc' = "returned"
  /\ UNCHANGED <<track, untrackPatterns, target, allFiles, ki, copiedFiles,
                 skippedFiles, trackedFiles, run, targetAtStart, ioFaults>>
  /\ UNCHANGED <<mvars, wvars, gvars, cvars>>
  /\ progress' = Report(progress, Message("File copying complete!"))

\* the command is run again on the same workspace and target
CopyAgain ==
  /\ kpc = "returned"
  /\ run < MaxRuns
  /\ kpc' = "ready"
  /\ UNCHANGED <<track, untrackPatterns, target, allFiles, ki, copiedFiles,
                 skippedFiles, trackedFiles, run, targetAtStart, ioFaults>>
  /\ UNCHANGED <<mvars, wvars, gvars, cvars>>
  /\ progress' = NewSink

CopyNext == CopyBegin \/ CopyStep \/ CopyReturn \/ CopyAgain

SpecCopy == CopyInit /\ [][CopyNext]_vars

----------------------------------------------------------------------------
(* FileTracker: the expansion of the track list on its own, as the three   *)
(* public methods run it first (getTrackedItems, then expandTrackedItems)  *)

NameSub == <<"s">>

ListFilePaths ==
  {<<NameFT>>, <<NameA, NameFT>>, <<NameA, NameSub, NameFT>>, <<NameA, NameSub, NameF1T>>}

ListOrders == {<<NameA, NameSub, NameFT, NameF1T>>, <<NameF1T, NameFT, NameSub, NameA>>}

\* every directory above one of the files
Ancestors(paths) == UNION {{SubSeq(q, 1, k) : k \in 1..(Len(q) - 1)} : q \in paths}

ListTrees ==
  UNION {
    {[dirs |-> Ancestors(chosen),
      files |-> [q \in chosen |-> <<>>],
      statFail |-> sf, listFail |-> {}, order |-> o, rootExists |-> TRUE] :
       o \in ListOrders, sf \in {{}, {<<NameA, NameFT>>} \cap chosen}}
    : chosen \in SUBSET ListFilePaths}

\* absolute paths of the track list: the workspace folder itself, a
\* directory, a directory below it, files at each level
ListTrackEntries ==
  {<<>>, <<NameA>>, <<NameA, NameSub>>, <<NameFT>>, <<NameA, NameFT>>,
   <<NameA, NameSub, NameFT>>}

RECURSIVE ListTrackLists(_)
ListTrackLists(n) ==
  IF n = 0 THEN {<<>>}
  ELSE LET shorter == ListTrackLists(n - 1) IN
       shorter \cup {Append(l, e) : l \in {m \in shorter : Len(m) = n - 1},
                                    e \in ListTrackEntries}

\* untrack lists: none, a directory name, a file name, a glob, a path
ListUntrackLists ==
  {<<>>, << <<"s">> >>, << <<"f", ".", "t">> >>, << <<"*", ".", "t">> >>,
   << <<"a", "/", "s">> >>, << <<"a">> >>}

ListInit ==
  /\ MatchIdle
  /\ MergeIdle
  /\ CmdIdle
  /\ fs \in ListTrees
  /\ ignorePatterns = <<>>
  /\ wpc = "off"
  /\ structure = <<>>
  /\ dirsRead = {}
  /\ doc = <<>>
  /\ track \in ListTrackLists(MaxTrack)
  /\ untrackPatterns \in ListUntrackLists
  /\ target = <<>>
  /\ kpc = "ready"
  /\ allFiles = <<>>
  /\ ki = 0
  /\ copiedFiles = 0
  /\ skippedFiles = 0
  /\ trackedFiles = <<>>
  /\ run = 0
  /\ targetAtStart = <<>>
  /\ ioFaults = 0
  /\ progress = NoSink

\* getTrackedItems followed by expandTrackedItems
ExpandTracked ==
  /\ kpc = "ready"
  /\ allFiles' = FlatList(fs, track, untrackPatterns)
  /\ kpc' = "expanded"
  /\ UNCHANGED <<track, untrackPatterns, target, ki, copiedFiles, skippedFiles,
                 trackedFiles, run, targetAtStart, ioFaults>>
  /\ UNCHANGED <<mvars, wvars, gvars, cvars>>
  /\ UNCHANGED progress

ListNext == ExpandTracked

SpecList == ListInit /\ [][ListNext]_vars

----------------------------------------------------------------------------
(* FileTracker: merge mode *)

\* the width of the separator line, "-".repeat(60)
SeparatorWidth == 60

DashLine == [i \in 1..SeparatorWidth |-> "-"]

NewLine == <<"\n">>

\* the spacing written when the read stream ends
Spacing == <<"\n", "\n">>

\* the header of appendFileToOutput
Header(file) ==
  DashLine \o NewLine \o <<"File: ">> \o file.relativePath \o NewLine \o DashLine \o NewLine

\* the text of the rejection, `Error reading ${file.path}: ${error.message}`
ReadErrorText(file) == <<"Error: Error reading ">> \o file.relativePath \o <<": EIO">>

\* the text of the rejection, `Error writing to output: ${error.message}`
WriteErrorText == <<"Error: Error writing to output: EIO">>

\* the errorHeader of the catch block of trackAndWriteToSingleFile
ErrorHeader(file, error) ==
  Header(file) \o <<"Error reading file: ">>
    \o (IF error = "write" THEN WriteErrorText ELSE ReadErrorText(file)) \o NewLine

\* PathUtils.ensureFileExists: the file is there afterwards, its text kept
ensureFileExists(text) == text

\* the workspaces of the merge runs: the text of a file is fixed by its
\* path, a/f.t is empty and every other file holds one character
MergeTrees ==
  {t \in CopyTrees :
     \A q \in DOMAIN t.files :
       t.files[q] = IF q = <<NameA, NameFT>> THEN <<>> ELSE <<"x">>}

\* a merge run: every entry of the track list is on disk (an entry that is
\* not is dropped by getTrackedItems and leaves the flat list of a shorter
\* track list)
MergeInit ==
  /\ MatchIdle
  /\ CmdIdle
  /\ fs \in MergeTrees
  /\ ignorePatterns = <<>>
  /\ wpc = "off"
  /\ structure = <<>>
  /\ dirsRead = {}
  /\ doc = <<>>
  /\ track \in {l \in TrackLists(MaxTrack) : \A i \in 1..Len(l) : l[i] \in Entries(fs)}
  /\ untrackPatterns \in UntrackLists
  /\ target = <<>>
  /\ kpc = "off"
  /\ allFiles = <<>>
  /\ ki = 0
  /\ copiedFiles = 0
  /\ skippedFiles = 0
  /\ trackedFiles = <<>>
  /\ run = 0
  /\ targetAtStart = <<>>
  /\ ioFaults = 0
  /\ gpc = "ready"
  /\ output = <<>>
  /\ outputExists \in BOOLEAN
  /\ pending = <<>>
  /\ blockStart = 0
  /\ caught = "none"
  /\ streams = [read |-> "none", write |-> "none"]
  /\ progress = NewSink

\* Array.prototype.reverse
RECURSIVE Reversed(_)
Reversed(q) == IF q = <<>> THEN <<>> ELSE Append(Reversed(Tail(q)), Head(q))

\* trackAndWriteToSingleFile going through the flat list from its end
MergeBegin_ReversesList ==
  /\ gpc = "ready"
  /\ copiedFiles' = 0
  /\ skippedFiles' = 0
  /\ outputExists' = TRUE
  /\ output' = ensureFileExists(output)
  /\ allFiles' = Reversed(FlatList(fs, track, untrackPatterns))
  /\ ki' = 1
  /\ gpc' = "loop"
  /\ UNCHANGED <<track, untrackPatterns, target, kpc, trackedFiles, run,
                 targetAtStart, ioFaults, pending, blockStart, caught, streams>>
  /\ UNCHANGED <<mvars, wvars, cvars>>
  /\ progress' = Report(Report(progress, Message("Analyzing tracked files...")),
                        Message("Found files to copy..."))

\* trackAndWriteToSingleFile up to the loop
MergeBegin ==
  /\ gpc = "ready"
  /\ copiedFiles' = 0
  /\ skippedFiles' = 0
  /\ outputExists' = TRUE
  /\ output' = ensureFileExists(output)
  /\ allFiles' = FlatList(fs, track, untrackPatterns)
  /\ ki' = 1
  /\ gpc' = "loop"
  /\ UNCHANGED <<track, untrackPatterns, target, kpc, trackedFiles, run,
                 targetAtStart, ioFaults, pending, blockStart, caught, streams>>
  /\ UNCHANGED <<mvars, wvars, cvars>>
  /\ progress' = Report(Report(progress, Message("Analyzing tracked files...")),
                        Message("Found files to copy..."))

\* appendFileToOutput: both streams created, the header handed to the write
\* stream
AppendOpen ==
  /\ gpc = "loop"
  /\ ki <= Len(allFiles)
  /\ pending' = Header(allFiles[ki])
  /\ blockStart' = Len(output)
  /\ gpc' = "streaming"
  /\ streams' = [read |-> "open", write |-> "open"]
  /\ UNCHANGED <<output, outputExists, caught>>
  /\ UNCHANGED <<mvars, wvars, kvars, cvars>>
  /\ UNCHANGED progress

\* the write stream puts the header into the file
AppendFlushHeader ==
  /\ gpc = "streaming"
  /\ pending # <<>>
  /\ output' = output \o pending
  /\ pending' = <<>>
  /\ UNCHANGED <<gpc, outputExists, blockStart, caught, streams>>
  /\ UNCHANGED <<mvars, wvars, kvars, cvars>>
  /\ UNCHANGED progress

\* readStream.pipe(writeStream, {end: false}): the content follows the header
AppendPipe ==
  /\ gpc = "streaming"
  /\ pending = <<>>
  /\ output' = output \o fs.files[allFiles[ki].path]
  /\ gpc' = "piped"
  /\ UNCHANGED <<outputExists, pending, blockStart, caught, streams>>
  /\ UNCHANGED <<mvars, wvars, kvars, cvars>>
  /\ UNCHANGED progress

\* readStream "end": the spacing is written, the write stream ended; on
\* "finish" the promise resolves and the loop goes to the next file.  Each
\* stream destroys itself when it is done (autoClose); the close of the
\* read stream's descriptor may be over by then, that of the write stream,
\* asked for after "finish", is not
AppendEnd ==
  /\ gpc = "piped"
  /\ output' = output \o Spacing
  /\ ki' = ki + 1
  /\ gpc' = "loop"
  /\ \E r \in {"closing", "closed"} : streams' = [read |-> r, write |-> "closing"]
  /\ UNCHANGED <<outputExists, pending, blockStart, caught>>
  /\ UNCHANGED <<track, untrackPatterns, target, kpc, allFiles, copiedFiles,
                 skippedFiles, trackedFiles, run, targetAtStart, ioFaults>>
  /\ UNCHANGED <<mvars, wvars, cvars>>
  /\ progress' = Report(progress, FileReport("Processing: ", BaseName(allFiles[ki].path),
                                              ki, Len(allFiles)))

\* readStream "error" with a handler that leaves the write stream as it is
AppendReadError_LeavesWriteStream ==
  /\ gpc = "streaming"
  /\ ioFaults < MaxIoFaults
  /\ pending' = <<>>
  /\ caught' = "read"
  /\ ioFaults' = ioFaults + 1
  /\ gpc' = "rejected"
  /\ \E r \in {"closing", "closed"} : streams' = [read |-> r, write |-> "open"]
  /\ UNCHANGED <<output, outputExists, blockStart>>
  /\ UNCHANGED <<track, untrackPatterns, target, kpc, allFiles, ki, copiedFiles,
                 skippedFiles, trackedFiles, run, targetAtStart>>
  /\ UNCHANGED <<mvars, wvars, cvars>>
  /\ UNCHANGED progress

\* readStream "error", before the end of the file has been read: the write
\* stream is destroyed with what it had not written yet, the promise rejects
AppendReadError ==
  /\ gpc = "streaming"
  /\ ioFaults < MaxIoFaults
  /\ pending' = <<>>
  /\ caught' = "read"
  /\ ioFaults' = ioFaults + 1
  /\ gpc' = "rejected"
  /\ \E r \in {"closing", "closed"} : streams' = [read |-> r, write |-> "closing"]
  /\ UNCHANGED <<output, outputExists, blockStart>>
  /\ UNCHANGED <<track, untrackPatterns, target, kpc, allFiles, ki, copiedFiles,
                 skippedFiles, trackedFiles, run, targetAtStart>>
  /\ UNCHANGED <<mvars, wvars, cvars>>
  /\ UNCHANGED progress

\* writeStream "error": a write of the header, of the content or of the
\* spacing fails; the read stream is destroyed, the promise rejects
AppendWriteError ==
  /\ gpc \in {"streaming", "piped"}
  /\ ioFaults < MaxIoFaults
  /\ pending' = <<>>
  /\ caught' = "write"
  /\ ioFaults' = ioFaults + 1
  /\ gpc' = "rejected"
  /\ \E w \in {"closing", "closed"} : streams' = [read |-> "closing", write |-> w]
  /\ UNCHANGED <<output, outputExists, blockStart>>
  /\ UNCHANGED <<track, untrackPatterns, target, kpc, allFiles, ki, copiedFiles,
                 skippedFiles, trackedFiles, run, targetAtStart>>
  /\ UNCHANGED <<mvars, wvars, cvars>>
  /\ UNCHANGED progress

\* the catch block of the loop of trackAndWriteToSingleFile: the error header
\* is appended with fs.promises.appendFile and the loop goes to the next
\* file; if appendFile fails in its turn the error leaves the function
AppendCatch ==
  /\ gpc = "rejected"
  /\ \E appendFails \in BOOLEAN :
       /\ appendFails => (caught = "write" \/ ioFaults < MaxIoFaults)
       /\ IF appendFails
          THEN /\ gpc' = "failed"
               /\ ioFaults' = IF caught = "write" THEN ioFaults ELSE ioFaults + 1
               /\ UNCHANGED <<output, ki>>
          ELSE /\ output' = output \o ErrorHeader(allFiles[ki], caught)
                              \o (IF ki < Len(allFiles) THEN Spacing ELSE <<>>)
               /\ ki' = ki + 1
               /\ gpc' = "loop"
               /\ UNCHANGED ioFaults
  /\ caught' = "none"
  /\ UNCHANGED <<outputExists, pending, blockStart, streams>>
  /\ UNCHANGED <<track, untrackPatterns, target, kpc, allFiles, copiedFiles,
                 skippedFiles, trackedFiles, run, targetAtStart>>
  /\ UNCHANGED <<mvars, wvars, cvars>>
  /\ UNCHANGED progress

\* the "close" of the destroyed streams: their descriptors are closed
StreamClosed ==
  /\ \E s \in {"read", "write"} : streams[s] = "closing"
  /\ streams' = [s \in {"read", "write"} |->
                   IF streams[s] = "closing" THEN "closed" ELSE streams[s]]
  /\ UNCHANGED <<gpc, output, outputExists, pending, blockStart, caught>>
  /\ UNCHANGED <<mvars, wvars, kvars, cvars>>
  /\ UNCHANGED progress

RECURSIVE RelativePaths(_)
RelativePaths(files) ==
  IF files = <<>> THEN <<>>
  ELSE <<Head(files).relativePath>> \o RelativePaths(Tail(files))

\* the return of trackAndWriteToSingleFile
MergeReturn ==
  /\ gpc = "loop"
  /\ ki > Len(allFiles)
  /\ trackedFiles' = RelativePaths(allFiles)
  /\ gpc' = "returned"
  /\ UNCHANGED <<output, outputExists, pending, blockStart, caught, streams>>
  /\ UNCHANGED <<track, untrackPatterns, target, kpc, allFiles, ki, copiedFiles,
                 skippedFiles, run, targetAtStart, ioFaults>>
  /\ UNCHANGED <<mvars, wvars, cvars>>
  /\ progress' = Report(progress, Message("Combined file creation complete!"))

MergeNext ==
  \/ MergeBegin
  \/ AppendOpen
  \/ AppendFlushHeader
  \/ AppendPipe
  \/ AppendEnd
  \/ AppendReadError
  \/ AppendWriteError
  \/ AppendCatch
  \/ StreamClosed
  \/ MergeReturn

SpecMerge == MergeInit /\ [][MergeNext]_vars

----------------------------------------------------------------------------
(* The summarize commands: SummaryCommand and SummaryOneFileCommand *)

\* a workspace folder that is not on disk, with or without a file outside
\* it that the track list names by its absolute path
MissingRootTrees ==
  {MissingRoot} \cup
  {[dirs |-> {<<Up>>}, files |-> [q \in {<<Up, NameFT>>} |-> c],
    statFail |-> {}, listFail |-> {<<>>}, order |-> o, rootExists |-> FALSE] :
     c \in Contents, o \in CopyOrders}

\* the workspaces the commands run on: at most one source file, or no
\* workspace folder at all
CmdTrees == {t \in CopyTrees : Cardinality(DOMAIN t.files) <= 1} \cup MissingRootTrees

\* track lists of the commands: at most one entry, below the workspace folder
\* or outside it
CmdTrackLists == {<<>>} \cup {<<e>> : e \in TrackEntries \cup {<<Up, NameFT>>}}

CmdIgnoreLists == {<<>>, << <<"a">> >>, << <<"{">> >>}

\* PathUtils.deleteFilesInDirectory
deleteFilesInDirectory(tgt) == <<>>

CmdInit ==
  /\ MatchIdle
  /\ MergeIdle
  /\ cmd \in {"summarize", "oneFile"}
  /\ cpc = "invoked"
  /\ structureFile = [written |-> FALSE, text |-> <<>>]
  /\ menu = NoMenuCommand
  /\ fs \in CmdTrees
  /\ ignorePatterns \in CmdIgnoreLists
  /\ wpc = "off"
  /\ structure = <<>>
  /\ dirsRead = {}
  /\ doc = <<>>
  /\ track \in CmdTrackLists
  /\ untrackPatterns \in UntrackLists
  /\ target \in InitialTargets
  /\ targetAtStart = target
  /\ kpc = "off"
  /\ allFiles = <<>>
  /\ ki = 0
  /\ copiedFiles = 0
  /\ skippedFiles = 0
  /\ trackedFiles = <<>>
  /\ run = 0
  /\ ioFaults = 0
  /\ progress = NewSink

\* execute up to withProgress: SummaryCommand asks before it writes into a
\* target folder that is not empty
CmdExecute ==
  /\ cpc = "invoked"
  /\ IF cmd = "summarize" /\ target # <<>>
     THEN \E confirm \in {"Proceed", "Delete Files And Proceed", "undefined"} :
            /\ target' = IF confirm = "Delete Files And Proceed"
                         THEN deleteFilesInDirectory(target) ELSE target
            /\ cpc' = IF confirm = "undefined" THEN "cancelled" ELSE "running"
     ELSE /\ cpc' = "running"
          /\ UNCHANGED target
  /\ UNCHANGED <<cmd, structureFile, menu>>
  /\ UNCHANGED <<track, untrackPatterns, kpc, allFiles, ki, copiedFiles,
                 skippedFiles, trackedFiles, run, targetAtStart, ioFaults>>
  /\ UNCHANGED <<mvars, wvars, gvars>>
  /\ UNCHANGED progress

\* performSummary: the two services are constructed, each compiling its
\* pattern list
CmdConstruct ==
  /\ cpc = "running"
  /\ wpc = "off"
  /\ IF ConstructorThrows(ignorePatterns) \/ ConstructorThrows(untrackPatterns)
     THEN /\ cpc' = "error"
          /\ UNCHANGED wpc
     ELSE /\ wpc' = "idle"
          /\ UNCHANGED cpc
  /\ UNCHANGED <<cmd, structureFile, menu>>
  /\ UNCHANGED <<fs, ignorePatterns, structure, dirsRead, doc>>
  /\ UNCHANGED <<mvars, kvars, gvars>>
  /\ progress' = IF cpc' = "error" THEN progress
                  ELSE Report(progress, MessageIncrement("Generating project structure...", 0, 1))

\* the catch block of execute after generateStructure or
\* trackAndWriteToSingleFile has thrown
CmdCatch ==
  /\ cpc = "running"
  /\ wpc = "failed" \/ gpc = "failed"
  /\ cpc' = "error"
  /\ UNCHANGED <<cmd, structureFile, menu>>
  /\ UNCHANGED <<mvars, wvars, kvars, gvars>>
  /\ UNCHANGED progress

\* SummaryCommand.performSummary, phase 2: trackAndCopyFiles is called
CmdTrackAndCopy ==
  /\ cmd = "summarize"
  /\ cpc = "running"
  /\ wpc = "built"
  /\ kpc = "off"
  /\ kpc' = "ready"
  /\ UNCHANGED <<track, untrackPatterns, target, allFiles, ki, copiedFiles,
                 skippedFiles, trackedFiles, run, targetAtStart, ioFaults>>
  /\ UNCHANGED <<mvars, wvars, gvars, cvars>>
  /\ progress' = Report(Report(progress, MessageIncrement("Structure analysis complete", 30, 1)),
                        MessageIncrement("Processing tracked files...", 30, 1))

\* saveStructureToFile: phase 3 of SummaryCommand, which then returns; in
\* SummaryOneFileCommand it comes right after generateStructure and
\* trackAndWriteToSingleFile is called next
CmdSaveStructure ==
  /\ cpc = "running"
  /\ wpc = "built"
  /\ \/ cmd = "summarize" /\ kpc = "returned"
     \/ cmd = "oneFile"
  /\ doc' = generateCompactJson(fs, structure)
  /\ structureFile' = [written |-> TRUE, text |-> doc']
  /\ wpc' = "serialized"
  /\ cpc' = IF cmd = "summarize" THEN "done" ELSE cpc
  /\ gpc' = IF cmd = "oneFile" THEN "ready" ELSE gpc
  /\ UNCHANGED <<cmd, menu, output, outputExists, pending, blockStart, caught, streams>>
  /\ UNCHANGED <<fs, ignorePatterns, structure, dirsRead>>
  /\ UNCHANGED <<mvars, kvars>>
  /\ progress' =
       IF cmd = "summarize"
       THEN Report(Report(Report(progress, MessageIncrement("File copying complete", 60, 1)),
                          MessageIncrement("Saving structure summary...", 80, 1)),
                   MessageIncrement("All steps finished!", 100, 1))
       ELSE Report(Report(progress, MessageIncrement("Structure analysis complete", 30, 1)),
                   MessageIncrement("Processing tracked files...", 30, 1))

\* SummaryOneFileCommand.performSummary returns
CmdFinish ==
  /\ cmd = "oneFile"
  /\ cpc = "running"
  /\ gpc = "returned"
  /\ cpc' = "done"
  /\ UNCHANGED <<cmd, structureFile, menu>>
  /\ UNCHANGED <<mvars, wvars, kvars, gvars>>
  /\ progress' = Report(progress, MessageIncrement("Single file generation complete!", 100, 1))

CmdNext ==
  \/ CmdExecute
  \/ CmdConstruct
  \/ GenerateStructure
  \/ CmdCatch
  \/ CmdTrackAndCopy
  \/ CopyBegin
  \/ CopyStep
  \/ CopyReturn
  \/ CmdSaveStructure
  \/ MergeBegin
  \/ AppendOpen
  \/ AppendFlushHeader
  \/ AppendPipe
  \/ AppendEnd
  \/ AppendReadError
  \/ AppendWriteError
  \/ AppendCatch
  \/ StreamClosed
  \/ MergeReturn
  \/ CmdFinish

SpecCmd == CmdInit /\ [][CmdNext]_vars

----------------------------------------------------------------------------
(* The two services of a command, as functions of the configuration *)

\* ConfigManager.getConfig as performSummary reads it
Config == [track |-> track, untrack |-> untrackPatterns,
           ignoreStructure |-> ignorePatterns]

\* new StructureSummarizer(config.ignoreStructure): the list its matcher
\* compiles
StructurePatterns(config) == config.ignoreStructure

\* new FileTracker(config.untrack): the list its matcher compiles
UntrackingPatterns(config) == config.untrack

\* generateStructure, then generateStructureText, under a configuration
StructureDocumentOf(f, config) ==
  generateCompactJson(f, buildStructureRecursive(f, CompileAll(StructurePatterns(config)),
                                                 StructurePatterns(config), <<>>))

\* getTrackedItems, then expandTrackedItems, under a configuration
FlatListOf(f, config) == FlatList(f, config.track, UntrackingPatterns(config))

\* trackAndCopyFiles on a flat list when no operation fails
RECURSIVE CopyResultOf(_, _, _)
CopyResultOf(f, tgt, files) ==
  IF files = <<>> THEN tgt
  ELSE CopyResultOf(f, copyFile(tgt, BaseName(Head(files).path),
                                f.files[Head(files).path], FALSE, FALSE, FALSE).target,
                    Tail(files))

\* trackAndWriteToSingleFile on a flat list when no operation fails
RECURSIVE MergedOutputOf(_, _)
MergedOutputOf(f, files) ==
  IF files = <<>> THEN <<>>
  ELSE Header(Head(files)) \o f.files[Head(files).path] \o Spacing
         \o MergedOutputOf(f, Tail(files))

----------------------------------------------------------------------------
(* The context-menu commands "Track for Copy" and "Untrack for Copy" *)

\* length of the track and untrack lists before the first command
MaxMenu == 2

\* the items of the Explorer that the commands are invoked on
MenuItems == {<<NameA>>, <<NameFT>>, <<NameA, NameFT>>}

\* the lists of at most n items, an item possibly written twice
RECURSIVE MenuLists(_)
MenuLists(n) ==
  IF n = 0 THEN {<<>>}
  ELSE LET shorter == MenuLists(n - 1) IN
       shorter \cup {Append(l, e) : l \in {m \in shorter : Len(m) = n - 1},
                                    e \in MenuItems}

RECURSIVE RelativeList(_)
RelativeList(l) ==
  IF l = <<>> THEN <<>> ELSE <<RelativePath(Head(l))>> \o RelativeList(Tail(l))

\* Array.prototype.includes
ArrayIncludes(list, x) == \E i \in 1..Len(list) : list[i] = x

\* list.filter((item) => item !== x)
RECURSIVE FilterOut(_, _)
FilterOut(list, x) ==
  IF list = <<>> THEN <<>>
  ELSE (IF Head(list) # x THEN <<Head(list)>> ELSE <<>>) \o FilterOut(Tail(list), x)

\* isItemTracked answering false for every item
isItemTracked_NeverTracked(itemPath) == FALSE

\* ConfigManager.isItemTracked with a workspace folder open
isItemTracked(itemPath) ==
  ArrayIncludes(RelativeList(track), RelativePath(itemPath))

\* ConfigManager.isItemUntracked with a workspace folder open
isItemUntracked(itemPath) ==
  ArrayIncludes(untrackPatterns, RelativePath(itemPath))

\* ConfigManager.addToTrack: the list it hands to update
addToTrack(currentTrack, itemPath) ==
  IF ~ArrayIncludes(RelativeList(currentTrack), RelativePath(itemPath))
  THEN Append(currentTrack, itemPath)
  ELSE currentTrack

\* ConfigManager.addToUntrack: the list it hands to update
addToUntrack(currentUntrack, itemPath) ==
  IF ~ArrayIncludes(currentUntrack, RelativePath(itemPath))
  THEN Append(currentUntrack, RelativePath(itemPath))
  ELSE currentUntrack

\* ConfigManager.removeFromTrack: the list it hands to update
RECURSIVE removeFromTrack(_, _)
removeFromTrack(currentTrack, itemPath) ==
  IF currentTrack = <<>> THEN <<>>
  ELSE (IF RelativePath(Head(currentTrack)) # RelativePath(itemPath)
        THEN <<Head(currentTrack)>> ELSE <<>>)
         \o removeFromTrack(Tail(currentTrack), itemPath)

\* ConfigManager.removeFromUntrack: the list it hands to update
removeFromUntrack(currentUntrack, itemPath) ==
  FilterOut(currentUntrack, RelativePath(itemPath))

\* the two lists have no workspace-relative path in common
ListsDisjoint(trackList, untrackList) ==
  \A i \in 1..Len(trackList) :
    ~ArrayIncludes(untrackList, RelativePath(trackList[i]))

MenuInit ==
  /\ MatchIdle
  /\ WalkIdle
  /\ MergeIdle
  /\ CmdIdle
  /\ track \in MenuLists(MaxMenu)
  /\ untrackPatterns \in {RelativeList(l) : l \in MenuLists(MaxMenu)}
  /\ ListsDisjoint(track, untrackPatterns)
  /\ target = <<>>
  /\ kpc = "off"
  /\ allFiles = <<>>
  /\ ki = 0
  /\ copiedFiles = 0
  /\ skippedFiles = 0
  /\ trackedFiles = <<>>
  /\ run = 0
  /\ targetAtStart = <<>>
  /\ ioFaults = 0
  /\ progress = NoSink

\* ContextMenuSummaryCommands.track on an item of the Explorer.  Without a
\* workspace folder isItemUntracked answers false and addToTrack throws;
\* failAt = k > 0 makes the k-th configuration update of the command reject.
\* Either error is caught by the command, which shows it and returns.
MenuTrack ==
  \E item \in MenuItems, workspaceOpen \in BOOLEAN, failAt \in 0..2 :
    LET untracked == workspaceOpen /\ isItemUntracked(item)
        adds == addToTrack(track, item) # track
        updates == IF ~workspaceOpen THEN 0
                   ELSE IF untracked THEN 1
                   ELSE Flag(adds) + 1
        added == workspaceOpen /\ ~untracked /\ adds /\ failAt # 1
        cleaned == /\ workspaceOpen
                   /\ \/ untracked /\ failAt # 1
                      \/ ~untracked /\ failAt = 0
    IN /\ failAt <= updates
       /\ track' = IF added THEN addToTrack(track, item) ELSE track
       /\ untrackPatterns' = IF cleaned THEN removeFromUntrack(untrackPatterns, item)
                             ELSE untrackPatterns
       /\ menu' = [name |-> "track", item |-> item,
                   outcome |-> IF ~workspaceOpen \/ failAt > 0 THEN "error"
                               ELSE IF untracked THEN "removed"
                               ELSE "added"]
       /\ UNCHANGED <<target, kpc, allFiles, ki, copiedFiles, skippedFiles,
                      trackedFiles, run, targetAtStart, ioFaults>>
       /\ UNCHANGED <<cmd, cpc, structureFile>>
       /\ UNCHANGED <<mvars, wvars, gvars>>
       /\ UNCHANGED progress

\* ContextMenuSummaryCommands.untrack on an item of the Explorer.  Without a
\* workspace folder isItemTracked answers false and addToUntrack throws;
\* failAt = 1 makes the configuration update of the command reject.
MenuUntrack ==
  \E item \in MenuItems, workspaceOpen \in BOOLEAN, failAt \in 0..1 :
    LET tracked == workspaceOpen /\ isItemTracked(item)
        adds == addToUntrack(untrackPatterns, item) # untrackPatterns
        updates == IF ~workspaceOpen THEN 0
                   ELSE IF tracked THEN 1
                   ELSE Flag(adds)
    IN /\ failAt <= updates
       /\ track' = IF tracked /\ failAt = 0 THEN removeFromTrack(track, item)
                   ELSE track
       /\ untrackPatterns' = IF workspaceOpen /\ ~tracked /\ failAt = 0
                             THEN addToUntrack(untrackPatterns, item)
                             ELSE untrackPatterns
       /\ menu' = [name |-> "untrack", item |-> item,
                   outcome |-> IF ~workspaceOpen \/ failAt > 0 THEN "error"
                               ELSE IF tracked THEN "removed"
                               ELSE "added"]
       /\ UNCHANGED <<target, kpc, allFiles, ki, copiedFiles, skippedFiles,
                      trackedFiles, run, targetAtStart, ioFaults>>
       /\ UNCHANGED <<cmd, cpc, structureFile>>
       /\ UNCHANGED <<mvars, wvars, gvars>>
       /\ UNCHANGED progress

MenuNext ==
  \/ MenuTrack
  \/ MenuUntrack

SpecMenu == MenuInit /\ [][MenuNext]_vars

----------------------------------------------------------------------------
(* The paths that the walk and the expansion hand to their matchers, for a
   root that need not be the first workspace folder *)

\* absolute locations, as the names below "/"
FolderW == << <<"w">> >>
FolderWA == << <<"w">>, NameA >>
FolderV == << <<"v">> >>

\* options.workspacePath
RootPaths == {FolderW, FolderWA, FolderV}

\* vscode.workspace.workspaceFolders
FolderLists == {<<>>, <<FolderW>>, <<FolderV, FolderW>>, <<FolderWA>>}

RECURSIVE CommonPrefix(_, _)
CommonPrefix(a, b) ==
  IF a = <<>> \/ b = <<>> THEN 0
  ELSE IF Head(a) # Head(b) THEN 0
  ELSE 1 + CommonPrefix(Tail(a), Tail(b))

\* path.relative(from, to) on absolute locations
pathRelative(from, to) ==
  LET common == CommonPrefix(from, to) IN
  RelativePath([i \in 1..(Len(from) - common) |-> Up]
                 \o SubSeq(to, common + 1, Len(to)))

\* the text of an absolute location
AbsoluteText(location) == <<"/">> \o RelativePath(location)

\* PathUtils.getRelativePathFromWorkspace, for any workspace folders
getRelativePathFromWorkspaceFolders(workspaceFolders, absolutePath) ==
  IF Len(workspaceFolders) = 0 THEN AbsoluteText(absolutePath)
  ELSE pathRelative(workspaceFolders[1], absolutePath)

RootInit ==
  /\ MergeIdle
  /\ CmdIdle
  /\ fs \in MergeTrees
  /\ ignorePatterns \in {<<>>, << <<"a">> >>}
  /\ wpc = "off"
  /\ structure = <<>>
  /\ dirsRead = {}
  /\ doc = <<>>
  /\ track = <<>>
  /\ untrackPatterns \in UntrackLists
  /\ target = <<>>
  /\ kpc = "off"
  /\ allFiles = <<>>
  /\ ki = 0
  /\ copiedFiles = 0
  /\ skippedFiles = 0
  /\ trackedFiles = <<>>
  /\ run = 0
  /\ targetAtStart = <<>>
  /\ ioFaults = 0
  /\ mpc = "built"
  /\ mPatterns = <<>>
  /\ mRegs = <<>>
  /\ mPath = <<>>
  /\ mResult = FALSE
  /\ caller = NoCaller
  /\ progress = NoSink

\* buildStructureRecursive reaching the entry item of the tree below
\* options.workspacePath: the call of exclusionMatcher.shouldExclude
WalkMatcherCall ==
  \E workspacePath \in RootPaths, workspaceFolders \in FolderLists, item \in Entries(fs) :
    LET itemPath == workspacePath \o item
        relativePath == getRelativePathFromWorkspaceFolders(workspaceFolders, itemPath)
    IN /\ mpc \in {"built", "tested"}
       /\ mPatterns' = ignorePatterns
       /\ mRegs' = CompileAll(ignorePatterns)
       /\ mPath' = relativePath
       /\ mResult' = shouldExclude(CompileAll(ignorePatterns), ignorePatterns, relativePath)
       /\ mpc' = "tested"
       /\ caller' = [by |-> "walk", workspacePath |-> workspacePath,
                     workspaceFolders |-> workspaceFolders, item |-> item]
       /\ UNCHANGED <<wvars, kvars, gvars, cvars>>
       /\ UNCHANGED progress

\* expandTrackedItems on a tracked file, expandDirectory on an entry of a
\* tracked directory: the call of untrackMatcher.shouldExclude
ExpandMatcherCall ==
  \E workspacePath \in RootPaths, workspaceFolders \in FolderLists, item \in Entries(fs) :
    LET itemPath == workspacePath \o item
        relativePath == getRelativePathFromWorkspaceFolders(workspaceFolders, itemPath)
    IN /\ mpc \in {"built", "tested"}
       /\ mPatterns' = untrackPatterns
       /\ mRegs' = CompileAll(untrackPatterns)
       /\ mPath' = relativePath
       /\ mResult' = shouldExclude(CompileAll(untrackPatterns), untrackPatterns, relativePath)
       /\ mpc' = "tested"
       /\ caller' = [by |-> "expand", workspacePath |-> workspacePath,
                     workspaceFolders |-> workspaceFolders, item |-> item]
       /\ UNCHANGED <<wvars, kvars, gvars, cvars>>
       /\ UNCHANGED progress

RootNext ==
  \/ WalkMatcherCall
  \/ ExpandMatcherCall

SpecRoot == RootInit /\ [][RootNext]_vars

----------------------------------------------------------------------------
(* Claims about the structure walk and its document *)

IgnoredByStructure(p) ==
  shouldExclude(CompileAll(ignorePatterns), ignorePatterns, RelativePath(p))

\* the walk gets to entry p: every directory above it can be listed and
\* is not ignored, and p and the directories above it can be stat'ed
Reached(p) ==
  /\ fs.rootExists
  /\ <<>> \notin fs.listFail
  /\ p \notin fs.statFail
  /\ \A d \in fs.dirs : IsProperPrefix(d, p) =>
       d \notin fs.statFail /\ d \notin fs.listFail /\ ~IgnoredByStructure(d)

\* the places of the document under the chain of keys p, as index chains
RECURSIVE Occurrences(_, _)
Occurrences(members, p) ==
  IF Len(p) = 1
  THEN {<<i>> : i \in {j \in 1..Len(members) : members[j].key = p[1]}}
  ELSE UNION {
         {<<i>> \o r : r \in Occurrences(members[i].val.members, Tail(p))}
         : i \in {j \in 1..Len(members) : members[j].key = p[1] /\ members[j].val.t = "obj"}}

RECURSIVE ValueAt(_, _)
ValueAt(members, ix) ==
  IF Len(ix) = 1 THEN members[ix[1]].val
  ELSE ValueAt(members[ix[1]].val.members, Tail(ix))

\* every chain of keys of the document
RECURSIVE KeyChains(_)
KeyChains(members) ==
  UNION {
    {<<members[i].key>>}
      \cup {<<members[i].key>> \o r : r \in KeyChains(members[i].val.members)}
    : i \in 1..Len(members)}

RECURSIVE NodeAt(_, _)
NodeAt(children, p) ==
  IF Len(p) = 1 THEN children[p[1]]
  ELSE NodeAt(children[p[1]].children, Tail(p))

\* C3: each regular file that the walk reaches outside ignored directories
\* appears in the serialized structure exactly once, with value 0, under the
\* chain of keys that equals its path from the root, also when its own path
\* matches an ignore-structure pattern.
C3_EveryVisibleFileOnceAsZero ==
  wpc = "serialized" =>
    \A q \in DOMAIN fs.files :
      Reached(q) =>
        /\ Cardinality(Occurrences(doc, q)) = 1
        /\ \A ix \in Occurrences(doc, q) : ValueAt(doc, ix) = Num(0)

\* a file below the root whose own path matches an ignore pattern is in the
\* document
C3_Witness ==
  /\ wpc = "serialized"
  /\ \E q \in DOMAIN fs.files :
       /\ Len(q) >= 2
       /\ Reached(q)
       /\ IgnoredByStructure(q)
       /\ Occurrences(doc, q) # {}

\* C4: every directory that the walk reaches and whose relative path the
\* ignore-structure matcher excludes has isIgnored = TRUE and no children in
\* the tree, is never listed, and is serialized as the number of its
\* immediate children; nothing below it is in the document.
C4_IgnoredDirectoryCollapsed ==
  \A d \in fs.dirs :
    (wpc \in {"built", "serialized"} /\ Reached(d) /\ IgnoredByStructure(d)) =>
      /\ NodeAt(structure, d).kind = "dir"
      /\ NodeAt(structure, d).isIgnored
      /\ NodeAt(structure, d).children = NoChildren
      /\ d \notin dirsRead
      /\ wpc = "serialized" =>
           /\ Cardinality(Occurrences(doc, d)) = 1
           /\ \A ix \in Occurrences(doc, d) :
                ValueAt(doc, ix) = Num(Cardinality(ChildrenOf(fs, d)))
           /\ \A k \in KeyChains(doc) : ~IsProperPrefix(d, k)

\* an ignored directory with a directory and more below it is one number
C4_Witness ==
  /\ wpc = "serialized"
  /\ \E d \in fs.dirs :
       /\ Reached(d)
       /\ IgnoredByStructure(d)
       /\ \E e \in fs.dirs : IsProperPrefix(d, e) /\ ChildrenOf(fs, e) # {}
       /\ \E ix \in Occurrences(doc, d) : ValueAt(doc, ix).n >= 1

----------------------------------------------------------------------------
(* Claims about copy mode *)

\* C1: a second run of trackAndCopyFiles on the same sources, track list,
\* untrack patterns and target, with nothing changed in between, returns
\* copiedFiles = 0 and skippedFiles = totalFiles and leaves the set of files
\* in the target as it was.
C1_SecondRunCopiesNothing ==
  (kpc = "returned" /\ run >= 2 /\ ioFaults = 0) =>
    /\ copiedFiles = 0
    /\ skippedFiles = Len(allFiles)
    /\ DOMAIN target = DOMAIN targetAtStart

\* name.ext with _1 before the extension
WithSuffix1(name) ==
  SubSeq(name, 1, LastDot(name) - 1) \o <<"_", "1">> \o SubSeq(name, LastDot(name), Len(name))

TwoHomonyms ==
  /\ Len(allFiles) = 2
  /\ BaseName(allFiles[1].path) = BaseName(allFiles[2].path)
  /\ LastDot(BaseName(allFiles[1].path)) > 1
  /\ fs.files[allFiles[1].path] # fs.files[allFiles[2].path]

\* C2: when one run into an empty target processes two source files with
\* the same base name name.ext and different content, the target ends with
\* name.ext holding the content of the first and name_1.ext holding the
\* content of the second, and both are counted as copied.
C2_HomonymsGetSuffix ==
  (kpc = "returned" /\ run = 1 /\ targetAtStart = <<>> /\ ioFaults = 0 /\ TwoHomonyms) =>
    LET name == BaseName(allFiles[1].path) IN
    /\ DOMAIN target = {name, WithSuffix1(name)}
    /\ target[name] = FileEntry(fs.files[allFiles[1].path])
    /\ target[WithSuffix1(name)] = FileEntry(fs.files[allFiles[2].path])
    /\ copiedFiles = 2
    /\ skippedFiles = 0
    /\ Len(trackedFiles) = 2

\* two files named f.t with different content were copied into an empty target
C2_Witness ==
  /\ kpc = "returned"
  /\ run = 1
  /\ targetAtStart = <<>>
  /\ ioFaults = 0
  /\ TwoHomonyms
  /\ NameF1T \in DOMAIN target

----------------------------------------------------------------------------
(* Merge mode: the text of the combined output *)

\* the block of one file: header, then the raw content
Block(f, file) == Header(file) \o f.files[file.path]

\* the blocks of files[k..], the spacing between them and none after the last
RECURSIVE BlocksFrom(_, _, _)
BlocksFrom(f, files, k) ==
  IF k > Len(files) THEN <<>>
  ELSE Block(f, files[k])
         \o (IF k < Len(files) THEN Spacing ELSE <<>>)
         \o BlocksFrom(f, files, k + 1)

MergedAll == gpc = "returned" /\ ioFaults = 0 /\ Len(allFiles) >= 1

\* C8: after trackAndWriteToSingleFile has processed n >= 1 readable files
\* into an empty output file, the output is the blocks of the files in turn
\* (dash line, File: line, dash line, content) with the two-newline spacing
\* after every block except the last, so that nothing follows the content of
\* the last file.
C8_NoSpacingAfterLastBlock ==
  MergedAll => output = BlocksFrom(fs, allFiles, 1)

\* what the run leaves in the file: every block is followed by the spacing
C8_SpacingAfterEveryBlock ==
  MergedAll => output = BlocksFrom(fs, allFiles, 1) \o Spacing

C8_Reached == MergedAll /\ Len(allFiles) = 2

----------------------------------------------------------------------------
(* The summarize commands on a workspace folder that does not exist *)

NothingAdded(tgt, before) ==
  \A n \in DOMAIN tgt : n \in DOMAIN before /\ tgt[n] = before[n]

\* C9: generateStructure on a root path that does not exist fails before any
\* directory is read, and the summarize command that called it writes no
\* structure file and copies or appends no tracked file in that run.
C9_MissingRootWritesNothing ==
  ~fs.rootExists =>
    /\ wpc \in {"off", "idle", "failed"}
    /\ dirsRead = {}
    /\ ~structureFile.written
    /\ kpc = "off" /\ copiedFiles = 0 /\ NothingAdded(target, targetAtStart)
    /\ gpc = "off" /\ output = <<>> /\ ~outputExists
    /\ cpc # "done"

C9_Witness ==
  /\ ~fs.rootExists
  /\ cpc = "error"
  /\ wpc = "failed"
  /\ <<Up, NameFT>> \in DOMAIN fs.files
  /\ \E i \in DOMAIN track : track[i] = <<Up, NameFT>>

----------------------------------------------------------------------------
(* The serialized structure: order of the keys *)

\* the document of the walk of the same tree when readdir returns the names
\* in the order o
DocumentUnderOrder(o) ==
  LET g == [fs EXCEPT !.order = o]
  IN generateCompactJson(g, buildStructureRecursive(g, CompileAll(ignorePatterns),
                                                    ignorePatterns, <<>>))

ReaddirOrders == NameOrders({fs.order[i] : i \in DOMAIN fs.order})

\* C11: the text of generateStructureText does not depend on the order in
\* which readdir returns the children: every walk of the same tree with the
\* same ignore-structure list serializes to the same document.
C11_DocumentIndependentOfReaddirOrder ==
  wpc = "serialized" => \A o \in ReaddirOrders : DocumentUnderOrder(o) = doc

\* the keys of one level: no file before a directory, and within the
\* directories and within the files no name before a name that sorts lower
LevelOrdered(children, members) ==
  \A i, j \in DOMAIN members :
    i < j =>
      LET a == members[i].key
          b == members[j].key
      IN /\ ~(children[a].kind = "file" /\ children[b].kind = "dir")
         /\ children[a].kind = children[b].kind => ~LocaleLess(b, a)

RECURSIVE DocumentOrdered(_, _)
DocumentOrdered(children, members) ==
  /\ LevelOrdered(children, members)
  /\ \A i \in DOMAIN members :
       members[i].val.t = "obj" =>
         DocumentOrdered(children[members[i].key].children, members[i].val.members)

\* C12: at every nesting level of the serialized document the keys appear
\* with all directories before all files and, within each group, in
\* ascending order of name, also for names that consist only of digits.
C12_DirectoriesFirstThenByName ==
  wpc = "serialized" => DocumentOrdered(structure, doc)

----------------------------------------------------------------------------
(* Copy mode: one file at a time *)

\* the loop is about to copy a file
CopyingFile == kpc = "loop" /\ ki <= Len(allFiles)

\* the target holds, under the name of the file about to be copied, a regular
\* file with the same content
IdenticalInTarget ==
  LET n == BaseName(allFiles[ki].path)
  IN /\ n \in DOMAIN target
     /\ target[n].kind = "file"
     /\ target[n].content = fs.files[allFiles[ki].path]

\* C13: when name.ext exists in the target as a regular file whose content
\* is identical to the source, copyFile (no I/O error occurring) writes
\* nothing, adds one to skippedFiles, leaves copiedFiles unchanged and
\* reports success, so the relative path is appended to trackedFiles.
C13_IdenticalFileSkipped ==
  [][(CopyingFile /\ IdenticalInTarget /\ ki' = ki + 1 /\ ioFaults' = ioFaults) =>
       /\ target' = target
       /\ skippedFiles' = skippedFiles + 1
       /\ copiedFiles' = copiedFiles
       /\ trackedFiles' = Append(trackedFiles, allFiles[ki].relativePath)]_vars

\* a run over one file that the target already held with the same content
C13_Witness ==
  /\ kpc = "returned"
  /\ ioFaults = 0
  /\ Len(allFiles) = 1
  /\ skippedFiles = 1
  /\ copiedFiles = 0
  /\ trackedFiles = <<allFiles[1].relativePath>>
  /\ target = targetAtStart
  /\ BaseName(allFiles[1].path) \in DOMAIN target
  /\ target[BaseName(allFiles[1].path)] = FileEntry(fs.files[allFiles[1].path])
  /\ fs.files[allFiles[1].path] # <<>>

\* C14: when the copy of one file fails with an I/O error (the step meets an
\* I/O error and leaves the target, which did not hold the file already, as
\* it was), skippedFiles grows by one,
\* the relative path is not added to trackedFiles, and the loop goes on with
\* the next file; the call returns only after every file of the flat list
\* has been processed, each counted once.
C14_CopyFailureSkipsFile ==
  /\ [][(CopyingFile /\ ~IdenticalInTarget /\ ioFaults' > ioFaults /\ target' = target) =>
          /\ skippedFiles' = skippedFiles + 1
          /\ copiedFiles' = copiedFiles
          /\ trackedFiles' = trackedFiles
          /\ allFiles' = allFiles
          /\ ki' = ki + 1
          /\ kpc' = "loop"]_vars
  /\ [](kpc = "returned" =>
          /\ ki = Len(allFiles) + 1
          /\ copiedFiles + skippedFiles = Len(allFiles))

\* a run in which the copy of the first of two files failed and the second
\* file was copied all the same
C14_Witness ==
  /\ kpc = "returned"
  /\ ioFaults = 1
  /\ Len(allFiles) = 2
  /\ skippedFiles = 1
  /\ copiedFiles = 1
  /\ trackedFiles = <<allFiles[2].relativePath>>
  /\ targetAtStart = <<>>

\* base_k.ext
Suffixed(name, k) ==
  SubSeq(name, 1, LastDot(name) - 1) \o <<"_">> \o Decimal(k)
    \o SubSeq(name, LastDot(name), Len(name))

\* names of the form base.ext
DottedNames == {NameFT, NameF1T, <<"a", ".", "t">>}

\* the values of k that the directories of the model can call for
SuffixRange == 1..(Cardinality(DOMAIN target) + 1)

\* C15: getUniqueFileName(targetDir, base.ext) is base.ext when the target
\* has no entry of that name, and otherwise base_k.ext for the smallest
\* k >= 1 for which the target has no such entry; the name it returns is
\* never the name of an existing entry.
C15_UniqueNameIsFirstFree ==
  \A name \in DottedNames :
    LET u == getUniqueFileName(target, name)
    IN /\ u \notin DOMAIN target
       /\ name \notin DOMAIN target => u = name
       /\ name \in DOMAIN target =>
            \E k \in SuffixRange :
              /\ u = Suffixed(name, k)
              /\ \A j \in 1..(k - 1) : Suffixed(name, j) \in DOMAIN target

\* the target holds f.t and f_1.t, and f_2.t is the name handed out
C15_Witness ==
  /\ NameFT \in DOMAIN target
  /\ NameF1T \in DOMAIN target
  /\ getUniqueFileName(target, NameFT) = NameF2T

\* the reports that the loop of trackAndCopyFiles sent, one after each file
RECURSIVE FileReports(_)
FileReports(reports) ==
  IF reports = <<>> THEN <<>>
  ELSE (IF Head(reports).message = "Copied: " THEN <<Head(reports)>> ELSE <<>>)
         \o FileReports(Tail(reports))

\* the sum of the increments of the reports, as a fraction
RECURSIVE IncrementSum(_)
IncrementSum(reports) ==
  IF reports = <<>> THEN <<0, 1>>
  ELSE LET rest == IncrementSum(Tail(reports))
           inc == Head(reports).increment
       IN <<inc[1] * rest[2] + rest[1] * inc[2], inc[2] * rest[2]>>

\* C16: in copy mode the progress sink receives one report after each file,
\* the increment of each is 100 / totalFiles, and the increments of a run
\* over n >= 1 files sum to 100.
C16_IncrementIsShareOfHundred ==
  (kpc = "returned" /\ Len(allFiles) >= 1) =>
    LET rs == FileReports(progress.reports)
        n == Len(allFiles)
    IN /\ Len(rs) = n
       /\ \A i \in DOMAIN rs : rs[i].increment[1] * n = 100 * rs[i].increment[2]
       /\ IncrementSum(rs)[1] = 100 * IncrementSum(rs)[2]

(***************************************************************************)
(* Merge mode: a source file that cannot be read                           *)
(***************************************************************************)

\* what the output file holds for the file the loop is at: everything after
\* the size the file had when appendFileToOutput created its write stream
BlockWritten(text) == SubSeq(text, blockStart + 1, Len(text))

\* the single error block of a file: the header with the error text, and the
\* spacing when another file follows
ErrorBlocks(file) ==
  {ErrorHeader(file, "read"), ErrorHeader(file, "read") \o Spacing}

\* the catch block has handled a read failure and the loop goes on
ReadFailureHandled == gpc = "rejected" /\ caught = "read" /\ gpc' = "loop"

\* C17: when a source file cannot be read while the combined file is built,
\* the output holds exactly one error block in the place of that file's block,
\* the loop goes on to the next file, the function returns normally after the
\* last one and the failed file is in trackedFiles
C17_ReadFailureLeavesOneErrorBlock ==
  /\ [][ReadFailureHandled =>
          /\ BlockWritten(output') \in ErrorBlocks(allFiles[ki])
          /\ ki' = ki + 1]_vars
  /\ [](gpc = "returned" =>
          /\ ki = Len(allFiles) + 1
          /\ trackedFiles = RelativePaths(allFiles))

\* a run that returned after a read failure in a file that is not the last
C17_Witness ==
  /\ gpc = "returned"
  /\ ioFaults >= 1
  /\ Len(allFiles) >= 2

(***************************************************************************)
(* Merge mode: the output file cannot be written                           *)
(***************************************************************************)

\* C18: a failure to write the output file is fatal: the error reaches the
\* caller of trackAndWriteToSingleFile and no later file is processed
C18_WriteFailureIsFatal ==
  [][(gpc = "rejected" /\ caught = "write") => gpc' = "failed"]_vars

(***************************************************************************)
(* The flat list and the untrack patterns                                  *)
(***************************************************************************)

\* the untrack matcher's answer for the relative path of an entry
Untracked(p) ==
  shouldExclude(CompileAll(untrackPatterns), untrackPatterns,
                getRelativePathFromWorkspace(p))

\* the track entries that getTrackedItems keeps
TrackedFile(t) == t \in DOMAIN fs.files /\ t \notin fs.statFail
TrackedDirectory(t) == (t = <<>> \/ t \in fs.dirs) /\ t \notin fs.statFail

TrackSet == {track[i] : i \in 1..Len(track)}

ListedPaths == {allFiles[i].path : i \in 1..Len(allFiles)}

\* the subdirectories of the tracked directory d that lie above the file p
SubdirectoriesAbove(d, p) ==
  {SubSeq(p, 1, k) : k \in (Len(d) + 1)..(Len(p) - 1)}

\* p is listed by the expansion of the tracked directory d without passing
\* through an excluded subdirectory
ReachedFrom(d, p) ==
  /\ TrackedDirectory(d)
  /\ IsProperPrefix(d, p)
  /\ \A sub \in SubdirectoriesAbove(d, p) : ~Untracked(sub)

\* C19: the flat list holds no file whose relative path the untrack matcher
\* excludes; a file listed from a tracked directory lies below no excluded
\* subdirectory of it; a tracked single file is listed exactly when its
\* relative path is not excluded
C19_FlatListHonoursUntrack ==
  kpc = "expanded" =>
    /\ \A p \in ListedPaths : ~Untracked(p)
    /\ \A p \in ListedPaths :
         \/ p \in TrackSet /\ TrackedFile(p)
         \/ \E d \in TrackSet : ReachedFrom(d, p)
    /\ \A t \in TrackSet : TrackedFile(t) => (t \in ListedPaths <=> ~Untracked(t))

\* a tracked directory with a file listed and a file left out because the
\* subdirectory above it is excluded while the file's own path is not
C19_Witness ==
  /\ kpc = "expanded"
  /\ track = << NameA >>
  /\ <<NameA, NameSub, NameFT>> \in DOMAIN fs.files
  /\ Untracked(<<NameA, NameSub>>)
  /\ ~Untracked(<<NameA, NameSub, NameFT>>)
  /\ <<NameA, NameFT>> \in ListedPaths
  /\ <<NameA, NameSub, NameFT>> \notin ListedPaths

(***************************************************************************)
(* The flat list and overlapping track entries                             *)
(***************************************************************************)

\* no entry is written twice in the track list
TrackEntriesDistinct ==
  \A i, j \in 1..Len(track) : track[i] = track[j] => i = j

\* C20: when the entries of the track list overlap (a tracked file inside a
\* tracked directory, a directory tracked together with one of its
\* ancestors), each file is in the flat list at most once
C20_EachFileListedOnce ==
  (kpc = "expanded" /\ TrackEntriesDistinct) =>
    \A i, j \in 1..Len(allFiles) : allFiles[i].path = allFiles[j].path => i = j

(***************************************************************************)
(* Copy mode: the entries the target already holds                         *)
(***************************************************************************)

\* every entry of the target before is there after, the same
Preserved(before, after) ==
  \A n \in DOMAIN before : n \in DOMAIN after /\ after[n] = before[n]

\* C27: no step of copy mode overwrites, truncates or removes an entry that
\* the target directory already holds: a copy writes to a name that was not
\* in the target just before the write
C27_ExistingEntriesKept ==
  [][CopyingFile => Preserved(target, target')]_vars

(***************************************************************************)
(* Copy mode: the two counters                                             *)
(***************************************************************************)

\* C28: when trackAndCopyFiles returns, copiedFiles + skippedFiles is
\* totalFiles: the counters are 0 when the loop starts, each file of the flat
\* list adds one to exactly one of them, whether it is copied, skipped as
\* identical or fails, and nothing else changes them
C28_CountersAddUpToTotal ==
  /\ [][(kpc = "ready" /\ kpc' = "loop") => (copiedFiles' = 0 /\ skippedFiles' = 0)]_vars
  /\ [][CopyingFile =>
          /\ ki' = ki + 1
          /\ \/ copiedFiles' = copiedFiles + 1 /\ skippedFiles' = skippedFiles
             \/ copiedFiles' = copiedFiles /\ skippedFiles' = skippedFiles + 1]_vars
  /\ [](kpc \in {"loop", "returned"} => copiedFiles + skippedFiles = ki - 1)
  /\ [](kpc = "returned" => copiedFiles + skippedFiles = Len(allFiles))

\* a second call that returned after one copy and one failure, the first
\* call having counted two files as well
C28_Witness ==
  /\ kpc = "returned"
  /\ run = 2
  /\ Len(allFiles) = 2
  /\ copiedFiles = 1
  /\ skippedFiles = 1
  /\ ioFaults = 1
  /\ Len(trackedFiles) = 1

(***************************************************************************)
(* The structure walk: directories and entries that cannot be read         *)
(***************************************************************************)

\* readdir of the parent hands the walk the entry p: every directory above
\* it is listed, none of them ignored or left out
Enumerated(p) ==
  /\ fs.rootExists
  /\ <<>> \notin fs.listFail
  /\ \A d \in fs.dirs : IsProperPrefix(d, p) =>
       d \notin fs.statFail /\ d \notin fs.listFail /\ ~IgnoredByStructure(d)

\* the tree has a node under the chain of names p
RECURSIVE InTree(_, _)
InTree(children, p) ==
  /\ p[1] \in DOMAIN children
  /\ Len(p) > 1 => /\ children[p[1]].kind = "dir"
                   /\ InTree(children[p[1]].children, Tail(p))

\* C25: a directory that cannot be listed stays in the tree as a directory
\* that is not ignored and has no children; an entry whose stats cannot be
\* read is not in the tree; the other entries the walk is handed are in the
\* tree all the same, and generateStructure on an existing root returns
\* normally
C25_UnreadableEntriesDoNotStopTheWalk ==
  /\ fs.rootExists => wpc # "failed"
  /\ wpc \in {"built", "serialized"} =>
       /\ <<>> \in fs.listFail => structure = NoChildren
       /\ \A d \in fs.dirs :
            (Enumerated(d) /\ d \notin fs.statFail /\ ~IgnoredByStructure(d)
               /\ d \in fs.listFail) =>
              /\ InTree(structure, d)
              /\ NodeAt(structure, d).kind = "dir"
              /\ ~NodeAt(structure, d).isIgnored
              /\ NodeAt(structure, d).children = NoChildren
       /\ \A e \in Entries(fs) :
            /\ (Enumerated(e) /\ e \in fs.statFail) => ~InTree(structure, e)
            /\ (Enumerated(e) /\ e \notin fs.statFail) => InTree(structure, e)

\* a directory with an entry in it could not be listed; it is in the tree
\* next to a sibling
C25_Witness ==
  /\ wpc = "built"
  /\ \E d \in fs.dirs \cap fs.listFail :
       /\ ChildrenOf(fs, d) # {}
       /\ InTree(structure, d)
       /\ NodeAt(structure, d).children = NoChildren
       /\ \E e \in Entries(fs) : e # d /\ Parent(e) = Parent(d) /\ InTree(structure, e)

(***************************************************************************)
(* The flat list and a tracked directory that is itself excluded           *)
(***************************************************************************)

\* C30: a tracked directory whose own relative path the untrack matcher
\* excludes contributes no file to the flat list: every listed file is a
\* tracked single file or comes from a tracked directory that is not excluded
C30_ExcludedTrackedDirectoryContributesNothing ==
  kpc = "expanded" =>
    \A p \in ListedPaths :
      \/ p \in TrackSet /\ TrackedFile(p)
      \/ \E d \in TrackSet : ReachedFrom(d, p) /\ ~Untracked(d)

(***************************************************************************)
(* Merge mode: the order of the blocks                                     *)
(***************************************************************************)

\* what a file can have put into the output before its streams stopped:
\* nothing, its header, its header and its content
Begun(file) ==
  {<<>>, Header(file), Header(file) \o fs.files[file.path]}

\* what the output holds for the k-th file once the loop has left it: its
\* block and the spacing, or what it had begun followed by the error block
Segments(k) ==
  LET file == allFiles[k]
      after == IF k < Len(allFiles) THEN Spacing ELSE <<>>
  IN {Header(file) \o fs.files[file.path] \o Spacing}
       \cup {b \o ErrorHeader(file, e) \o after : b \in Begun(file), e \in {"read", "write"}}

\* text is made of one segment for each of the files k..last, in this order
RECURSIVE Composed(_, _, _)
Composed(text, k, last) ==
  IF k > last THEN text = <<>>
  ELSE \E seg \in Segments(k) :
         /\ StartsWith(text, seg)
         /\ Composed(SubSeq(text, Len(seg) + 1, Len(text)), k + 1, last)

\* C26: the blocks are in the output in the order of the flat list, which is
\* the expansion of the track list, and a file's block is complete before
\* the first character of the next file's block is written: at every moment
\* the output is the finished blocks of the files before the current one, in
\* order, followed by what the current file has written so far
C26_BlocksInListOrderNeverInterleaved ==
  gpc \in {"loop", "streaming", "piped", "rejected", "failed", "returned"} =>
    /\ allFiles = FlatList(fs, track, untrackPatterns)
    /\ IF gpc \in {"loop", "returned"}
       THEN Composed(output, 1, ki - 1)
       ELSE \E b \in Begun(allFiles[ki]) :
              /\ EndsWith(output, b)
              /\ Composed(SubSeq(output, 1, Len(output) - Len(b)), 1, ki - 1)

\* a directory whose readdir returns f_1.t before f.t was merged without an
\* error: two blocks, f_1.t first
C26_Witness ==
  /\ gpc = "returned"
  /\ ioFaults = 0
  /\ Len(allFiles) = 2
  /\ allFiles[1].path = <<NameB, NameF1T>>
  /\ allFiles[2].path = <<NameB, NameFT>>
  /\ StartsWith(output, Header(allFiles[1]))

(***************************************************************************)
(* Merge mode: the two streams of a file                                   *)
(***************************************************************************)

\* appendFileToOutput settles: it resolves or rejects
Settles == gpc \in {"streaming", "piped"} /\ gpc' \in {"loop", "rejected"}

\* the loop starts a file
StartsFile == gpc = "loop" /\ gpc' = "streaming"

\* the descriptor of the stream is closed, or there never was one
Released(s) == s \in {"none", "closed"}

\* C24 as stated: both streams of a file are closed by the time
\* appendFileToOutput settles, and no stream of a file is still open when
\* the next file starts
C24_StreamsClosedWhenSettled ==
  /\ [][Settles => (Released(streams'.read) /\ Released(streams'.write))]_vars
  /\ [][StartsFile => (Released(streams.read) /\ Released(streams.write))]_vars

\* C24, amended: by the time appendFileToOutput settles, on each of the three
\* paths, both streams have been destroyed, so that nothing more is read or
\* written through them and their descriptors are being closed; a stream is
\* in use only while its own file is being appended
C24_StreamsDestroyedWhenSettled ==
  /\ [][Settles => (streams'.read # "open" /\ streams'.write # "open")]_vars
  /\ [][StartsFile => (streams.read # "open" /\ streams.write # "open")]_vars
  /\ []((streams.read = "open" \/ streams.write = "open") => gpc \in {"streaming", "piped"})

\* the second file of a list is being appended after the first one was
\* rejected and its streams destroyed: the streams in use are its own
C24_Witness ==
  /\ gpc = "streaming"
  /\ ki = 2
  /\ ioFaults = 1
  /\ streams = [read |-> "open", write |-> "open"]
  /\ Len(output) > Len(Header(allFiles[1]))

----------------------------------------------------------------------------
(* Claims about the context-menu commands *)

\* the step is an "Untrack for Copy" command that ran to its end without an
\* error
UntrackCompleted ==
  /\ menu'.name = "untrack"
  /\ menu'.outcome # "error"

\* C22: after "Untrack for Copy" has completed once on an item, the item's
\* workspace-relative path is not in the track list and is in the untrack
\* list, whichever of the two lists it was in before
C22_UntrackMovesItemToUntrackList ==
  [][UntrackCompleted =>
       /\ ~ArrayIncludes(RelativeList(track'), RelativePath(menu'.item))
       /\ ArrayIncludes(untrackPatterns', RelativePath(menu'.item))]_vars

\* C29: starting from a track list and an untrack list with no entry in
\* common, after any sequence of Track and Untrack commands no
\* workspace-relative path is in both lists
C29_TrackAndUntrackListsStayDisjoint ==
  ListsDisjoint(track, untrackPatterns)

\* "Track for Copy" has just taken its item out of the untrack list, and
\* both lists still hold other items
C29_Witness ==
  /\ menu.name = "track"
  /\ menu.outcome = "removed"
  /\ ~isItemUntracked(menu.item)
  /\ track # <<>>
  /\ untrackPatterns # <<>>

----------------------------------------------------------------------------
(* Claims about the root of the relative paths *)

\* C23: every path handed to a matcher during the structure walk and during
\* the expansion of the tracked items is the path of the item relative to the
\* root supplied to the operation (options.workspacePath), never an absolute
\* path, for every root
C23_MatcherPathsRelativeToSuppliedRoot ==
  caller.by \in {"walk", "expand"} =>
    /\ mPath = RelativePath(caller.item)
    /\ ~StartsWith(mPath, <<"/">>)

----------------------------------------------------------------------------
(* Claims about the two matcher sets *)

\* the untrack lists and the structure lists that a configuration can be
\* changed to, the services being constructed from them
OtherUntrackLists == {u \in UntrackLists : ~ConstructorThrows(u)}
OtherStructureLists == {i \in CmdIgnoreLists : ~ConstructorThrows(i)}

====
